---- MODULE Spec2Model ----
(***************************************************************************)
(* A model of the mdparse text-to-tree pipeline:                           *)
(*   src/tokeniser.py  StringPeek, Tokeniser, DelimiterStack,              *)
(*                     DelimiterProcessor                                  *)
(*   src/tree.py       Node                                                *)
(*                                                                         *)
(* Text is a sequence of one-character strings; a token is a Python str,   *)
(* modelled as the sequence of its characters, so that literal text that   *)
(* happens to spell a control token is the same value as that token, as it *)
(* is in the code.  A raised Python exception is recorded in raised.       *)
(***************************************************************************)
EXTENDS Integers, Sequences, FiniteSets, TLC

VARIABLES
    pc,                    \* position of the run: which stage is executing
    raised,                \* "" or the name of the Python exception raised
    text,                  \* StringPeek buffer (the whole input)
    cursor,                \* StringPeek.tell()
    current_token,         \* Tokeniser.current_token (the text buffer)
    tokens,                \* Tokeniser.tokens / DelimiterProcessor input
    tok_index,             \* index i of the enumerate() loop in process_tokens
    delimiter_stack,       \* DelimiterProcessor.delimiter_stack: <<index, token>>
    processed_tokens,      \* DelimiterProcessor.processed_tokens: index -> token
    external_link_correct, \* DelimiterProcessor.external_link_correct
    new_tokens,            \* value returned by process_tokens
    nodes,                 \* arena of Node objects; nodes[1] is the tree root
    fed,                   \* tokens handed to root.catch_token so far
    peeked                 \* value returned by the last StringPeek call

vars == <<pc, raised, text, cursor, current_token, tokens, tok_index,
          delimiter_stack, processed_tokens, external_link_correct,
          new_tokens, nodes, fed, peeked>>

-----------------------------------------------------------------------------
(* Bounds of the model.                                                    *)

MaxTextLen == 3
MaxTokens == 3
MaxTreeTokens == 4

-----------------------------------------------------------------------------
(* Python str helpers.                                                     *)

Min(a, b) == IF a < b THEN a ELSE b
Max(a, b) == IF a > b THEN a ELSE b

Last(s) == s[Len(s)]
Front(s) == SubSeq(s, 1, Len(s) - 1)

\* s[-n:] of Python
Suffix(s, n) == SubSeq(s, Max(1, Len(s) - n + 1), Len(s))
\* s[:n] of Python, n >= 0
Prefix(s, n) == SubSeq(s, 1, Min(n, Len(s)))
\* s[:-n] of Python, n > 0
DropLast(s, n) == SubSeq(s, 1, Len(s) - n)

RECURSIVE Concat(_)
Concat(ss) == IF ss = <<>> THEN <<>> ELSE Head(ss) \o Concat(Tail(ss))

RECURSIVE Repeat(_, _)
Repeat(c, n) == IF n <= 0 THEN <<>> ELSE <<c>> \o Repeat(c, n - 1)

\* (sub in s) for Python strings: substring test (the empty string is in any)
IsSubstring(sub, s) ==
    \E k \in 0..(Len(s) - Len(sub)) : SubSeq(s, k + 1, k + Len(sub)) = sub

\* the backtick character (U+0060), which a TLA+ string cannot hold
BT == "BACKTICK"

\* string.digits
digits == {"0", "1", "2", "3", "4", "5", "6", "7", "8", "9"}

AsciiLetters ==
    {"a", "b", "c", "d", "e", "f", "g", "h", "i", "j", "k", "l", "m",
     "n", "o", "p", "q", "r", "s", "t", "u", "v", "w", "x", "y", "z",
     "A", "B", "C", "D", "E", "F", "G", "H", "I", "J", "K", "L", "M",
     "N", "O", "P", "Q", "R", "S", "T", "U", "V", "W", "X", "Y", "Z"}

\* str.isalpha / str.isalnum on one character (ASCII range)
isalpha(c) == c \in AsciiLetters
isalnum(c) == c \in AsciiLetters \cup digits

\* (s in string.digits) where s is a str of length 0 or 1, as returned by
\* peek_char: a substring test, so the empty string is "in" the digits
InDigits(s) == s = <<>> \/ (Len(s) = 1 /\ s[1] \in digits)

-----------------------------------------------------------------------------
(* StringPeek (src/tokeniser.py 6-31).  `s` is the buffer, `cur` the       *)
(* cursor.  io.StringIO.seek raises ValueError on a negative position.     *)

\* io.StringIO.read(n) at position cur: the characters returned
read(s, cur, n) ==
    IF cur >= Len(s) THEN <<>> ELSE SubSeq(s, cur + 1, Min(cur + n, Len(s)))

\* ... and the position afterwards
read_cursor(s, cur, n) ==
    IF cur >= Len(s) THEN cur ELSE Min(cur + n, Len(s))

peek_raises(s, cur, count) == count < 0 /\ cur + count < 0

peek(s, cur, count) ==
    IF count < 0 THEN read(s, cur + count, -count) ELSE read(s, cur, count)

peek_char_raises(s, cur, offset) == cur + offset < 0

peek_char(s, cur, offset) == read(s, cur + offset, 1)

relative_seek(s, cur, offset) == cur + offset

-----------------------------------------------------------------------------
(* Tokeniser (src/tokeniser.py 34-298).  The Tokeniser object is the       *)
(* record ts = [cursor, current_token, tokens] over the buffer s.          *)

EOF_TOKEN == <<"!", "E", "O", "F">>

write(ts, str) == [ts EXCEPT !.current_token = @ \o str]

emit(ts, token) == [ts EXCEPT !.tokens = Append(@, token)]

advance(s, ts, n) == [ts EXCEPT !.cursor = read_cursor(s, @, n)]

end_current_token(ts) ==
    [ts EXCEPT !.tokens = IF ts.current_token # <<>>
                          THEN Append(@, ts.current_token) ELSE @,
               !.current_token = <<>>]

is_first_line_character(s, cur) ==
    LET stop == {i \in 2..(cur - 1) : s[cur - i + 1] \notin {" ", "\t"}}
        first == CHOOSE i \in stop : \A j \in stop : i <= j
    IN  IF cur = 1 THEN TRUE
        ELSE IF stop = {} THEN TRUE
        ELSE s[cur - first + 1] = "\n"

is_start_of_line(s, cur) ==
    IF cur = 1 THEN TRUE ELSE peek_char(s, cur, -2) = <<"\n">>

tab_handler(s, ts) == emit(end_current_token(ts), <<"\t">>)

\* the while loop of handle_numbered_list: the number of digits after the
\* cursor; the loop has no exit when only digits remain, because peek_char
\* returns "" past the end and "" is "in" string.digits
RECURSIVE digit_run(_, _, _)
digit_run(s, cur, n) ==
    IF cur + n < Len(s) /\ s[cur + n + 1] \in digits
    THEN digit_run(s, cur, n + 1) ELSE n

handle_numbered_list_loops(s, cur) ==
    \A k \in (cur + 1)..Len(s) : s[k] \in digits

handle_numbered_list(s, ts) ==
    LET n == digit_run(s, ts.cursor, 0)
    IN  IF Suffix(peek(s, ts.cursor, n + 2), 2) = <<".", " ">>
        THEN advance(s, emit(ts, peek_char(s, ts.cursor, -1)
                                  \o peek(s, ts.cursor, n + 2)), n + 2)
        ELSE write(ts, peek_char(s, ts.cursor, 0))

space_handler(s, ts) ==
    IF peek(s, ts.cursor, 3) = <<" ", " ", " ">>
    THEN tab_handler(s, advance(s, ts, 3))
    ELSE write(ts, <<" ">>)

insert_bar_token(s, ts) ==
    advance(s, emit(end_current_token(ts), <<"-", "-", "-">>), 2)

hyphen_handler(s, ts) ==
    IF ~is_first_line_character(s, ts.cursor) THEN write(ts, <<"-">>)
    ELSE IF peek(s, ts.cursor, 2) = <<"-", "-">> THEN insert_bar_token(s, ts)
    ELSE IF peek(s, ts.cursor, 1) = <<" ">>
    THEN advance(s, emit(end_current_token(ts), <<"-", " ">>), 1)
    ELSE ts

star_handler(s, ts) ==
    LET t == end_current_token(ts)
    IN  IF is_first_line_character(s, t.cursor) /\ peek(s, t.cursor, 1) = <<" ">>
        THEN advance(s, emit(end_current_token(t), <<"*", " ">>), 1)
        ELSE IF peek(s, t.cursor, 1) = <<"*">>
        THEN emit(advance(s, t, 1), <<"*", "*">>)
        ELSE emit(t, <<"*">>)

underscore_handler(s, ts) ==
    LET t == end_current_token(ts)
    IN  IF peek(s, t.cursor, 1) = <<"_">>
        THEN emit(advance(s, t, 1), <<"_", "_">>)
        ELSE emit(t, <<"_">>)

escape_handler(s, ts) == advance(s, write(ts, read(s, ts.cursor, 1)), 1)

newline_handler(s, ts) == emit(end_current_token(ts), <<"\n">>)

\* the for loop of check_tag: the maximal run of tag characters
RECURSIVE tag_run(_, _, _)
tag_run(s, cur, i) ==
    IF i < Len(s) - cur
       /\ (isalnum(s[cur + i + 1]) \/ s[cur + i + 1] \in {"-", "/", "_"})
    THEN <<s[cur + i + 1]>> \o tag_run(s, cur, i + 1)
    ELSE <<>>

check_tag(s, cur) ==
    LET tag_string == <<"#">> \o tag_run(s, cur, 0)
    IN  IF \E k \in 1..Len(tag_string) : isalpha(tag_string[k])
        THEN tag_string ELSE <<>>

\* the for loop of check_heading, from iteration i with `heading` written
RECURSIVE heading_scan(_, _, _, _)
heading_scan(s, cur, i, heading) ==
    IF i >= Len(s) - cur THEN <<>>
    ELSE IF i > 6 THEN <<>>
    ELSE IF s[cur + i + 1] = "#"
         THEN heading_scan(s, cur, i + 1, heading \o <<"#">>)
    ELSE IF s[cur + i + 1] = " " THEN heading
    ELSE <<>>

check_heading(s, cur) == heading_scan(s, cur, 0, <<"#">>)

handle_heading(s, ts, heading) == advance(s, emit(ts, heading), Len(heading))

hash_handler(s, ts) ==
    LET heading == IF is_first_line_character(s, ts.cursor)
                   THEN check_heading(s, ts.cursor) ELSE <<>>
        tag == check_tag(s, ts.cursor)
    IN  IF heading # <<>> THEN handle_heading(s, end_current_token(ts), heading)
        ELSE IF tag # <<>>
        THEN [emit(end_current_token(ts), tag)
                 EXCEPT !.cursor = relative_seek(s, ts.cursor, Len(tag) - 1)]
        ELSE write(ts, <<"#">>)

open_sqbracket_handler(s, ts) ==
    LET t == end_current_token(ts)
    IN  IF peek(s, t.cursor, 1) = <<"[">>
        THEN advance(s, emit(t, <<"[", "[">>), 1)
        ELSE emit(t, <<"[">>)

bang_handler(s, ts) ==
    IF peek(s, ts.cursor, 2) = <<"[", "[">>
    THEN advance(s, emit(end_current_token(ts), <<"!", "[", "[">>), 2)
    ELSE ts

close_sqbracket_handler(s, ts) ==
    LET t == end_current_token(ts)
    IN  IF peek(s, t.cursor, 1) = <<"]">>
        THEN emit(advance(s, t, 1), <<"]", "]">>)
        ELSE IF peek(s, t.cursor, 1) = <<"(">>
        THEN emit(advance(s, t, 1), <<"]", "(">>)
        ELSE emit(t, <<"]">>)

open_rdbracket_handler(s, ts) == emit(end_current_token(ts), <<"(">>)

close_rdbracket_handler(s, ts) == emit(end_current_token(ts), <<")">>)

pipe_handler(s, ts) == emit(end_current_token(ts), <<"|">>)

block_quote_handler(s, ts) ==
    IF is_first_line_character(s, ts.cursor)
    THEN advance(s, emit(end_current_token(ts), <<">", " ">>), 1)
    ELSE write(ts, <<">">>)

\* self.stream.peek(2) == 2 compares a str with an int: never equal
backtick_handler(s, ts) ==
    IF FALSE
    THEN advance(s, emit(end_current_token(ts), <<BT, BT, BT>>), 2)
    ELSE emit(end_current_token(ts), <<BT>>)

colon_handler(s, ts) ==
    LET t == end_current_token(ts)
    IN  IF peek(s, t.cursor, 1) = <<":">>
        THEN emit(advance(s, t, 1), <<":", ":">>)
        ELSE emit(t, <<":">>)

\* the keys of Tokeniser.markdown_handlers
markdown_handlers ==
    {"*", "\\", "#", "\n", "_", "\t", " ", "-", "[", "]", "(", ")", "|",
     ">", ":", BT, "!"}

dispatch(s, ts, char) ==
    CASE char = "*" -> star_handler(s, ts)
      [] char = "\\" -> escape_handler(s, ts)
      [] char = "#" -> hash_handler(s, ts)
      [] char = "\n" -> newline_handler(s, ts)
      [] char = "_" -> underscore_handler(s, ts)
      [] char = "\t" -> tab_handler(s, ts)
      [] char = " " -> space_handler(s, ts)
      [] char = "-" -> hyphen_handler(s, ts)
      [] char = "[" -> open_sqbracket_handler(s, ts)
      [] char = "]" -> close_sqbracket_handler(s, ts)
      [] char = "(" -> open_rdbracket_handler(s, ts)
      [] char = ")" -> close_rdbracket_handler(s, ts)
      [] char = "|" -> pipe_handler(s, ts)
      [] char = ">" -> block_quote_handler(s, ts)
      [] char = ":" -> colon_handler(s, ts)
      [] char = BT -> backtick_handler(s, ts)
      [] char = "!" -> bang_handler(s, ts)

\* Tokeniser.process reaches handle_numbered_list
calls_numbered_list(s, ts, char) ==
    /\ char \notin markdown_handlers
    /\ is_first_line_character(s, ts.cursor)
    /\ char \in digits

process(s, ts, char) ==
    IF char \in markdown_handlers THEN dispatch(s, ts, char)
    ELSE IF is_first_line_character(s, ts.cursor) /\ char \in digits
    THEN handle_numbered_list(s, ts)
    ELSE write(ts, <<char>>)

tokeniser_state == [cursor |-> cursor, current_token |-> current_token,
                    tokens |-> tokens]

-----------------------------------------------------------------------------
(* Token spellings written by the resolver and read by the tree builder.   *)

T_EM == <<"!", "E", "M">>
T_STRONG == <<"!", "S", "T", "R", "O", "N", "G">>
T_H1 == <<"!", "H", "1">>
T_H2 == <<"!", "H", "2">>
T_H3 == <<"!", "H", "3">>
T_H4 == <<"!", "H", "4">>
T_H5 == <<"!", "H", "5">>
T_H6 == <<"!", "H", "6">>
T_ITEM == <<"!", "I", "T", "E", "M">>
T_BLOCK_QUOTE == <<"!", "B", "L", "O", "C", "K", "_", "Q", "U", "O", "T", "E">>
T_INTERNAL_LINK == <<"!", "I", "N", "T", "E", "R", "N", "A", "L", "_", "L", "I", "N", "K">>
T_EMBED_LINK == <<"!", "E", "M", "B", "E", "D", "_", "L", "I", "N", "K">>
T_EXTERNAL_LINK == <<"!", "E", "X", "T", "E", "R", "N", "A", "L", "_", "L", "I", "N", "K">>
T_CODE == <<"!", "C", "O", "D", "E">>
T_CODEBLOCK == <<"!", "C", "O", "D", "E", "B", "L", "O", "C", "K">>
T_LINK_BREAK == <<"!", "L", "I", "N", "K", "_", "B", "R", "E", "A", "K">>
T_LINE_BREAK == <<"!", "L", "I", "N", "E", "_", "B", "R", "E", "A", "K">>
T_CLOSE == <<"!", "C", "L", "O", "S", "E">>
T_PIPE == <<"!", "P", "I", "P", "E">>
T_TAB == <<"!", "T", "A", "B">>
T_HBAR == <<"!", "H", "B", "A", "R">>
OLI_PREFIX == <<"!", "O", "L", "I", "_">>

\* the opener tokens (keys of the dict openers, src/tokeniser.py 301-320)
openers ==
    (<<"*">> :> T_EM)
    @@ (<<"*", "*">> :> T_STRONG)
    @@ (<<"_">> :> T_EM)
    @@ (<<"_", "_">> :> T_STRONG)
    @@ (<<"#">> :> T_H1)
    @@ (<<"#", "#">> :> T_H2)
    @@ (<<"#", "#", "#">> :> T_H3)
    @@ (<<"#", "#", "#", "#">> :> T_H4)
    @@ (<<"#", "#", "#", "#", "#">> :> T_H5)
    @@ (<<"#", "#", "#", "#", "#", "#">> :> T_H6)
    @@ (<<"*", " ">> :> T_ITEM)
    @@ (<<"-", " ">> :> T_ITEM)
    @@ (<<">", " ">> :> T_BLOCK_QUOTE)
    @@ (<<"[", "[">> :> T_INTERNAL_LINK)
    @@ (<<"!", "[", "[">> :> T_EMBED_LINK)
    @@ (<<"[">> :> T_EXTERNAL_LINK)
    @@ (<<BT>> :> T_CODE)
    @@ (<<BT, BT, BT>> :> T_CODEBLOCK)


-----------------------------------------------------------------------------
(* Delimiter resolver (src/tokeniser.py 323-472).  Token positions are     *)
(* 1-based here (Python index + 1).  The DelimiterProcessor object is the  *)
(* record dp = [delimiter_stack, processed_tokens, external_link_correct,  *)
(* raised]; None is the value NoneValue.                                   *)

NoneValue == <<"None">>

NEWLINE == <<"\n">>
TWO_NEWLINES == <<"\n", "\n">>
DOT_SPACE == <<".", " ">>

\* int(str) succeeds: optional surrounding whitespace, optional sign, then
\* decimal digits that single underscores may separate
RECURSIVE strip(_)
strip(str) ==
    IF str # <<>> /\ Head(str) \in {" ", "\t", "\n"} THEN strip(Tail(str))
    ELSE IF str # <<>> /\ Last(str) \in {" ", "\t", "\n"} THEN strip(Front(str))
    ELSE str

int_parses(str) ==
    LET t == strip(str)
        body == IF t # <<>> /\ Head(t) \in {"+", "-"} THEN Tail(t) ELSE t
    IN  /\ body # <<>>
        /\ Head(body) \in digits
        /\ Last(body) \in digits
        /\ \A k \in 1..Len(body) : body[k] \in digits \cup {"_"}
        /\ \A k \in 1..(Len(body) - 1) : ~(body[k] = "_" /\ body[k + 1] = "_")

get_opener(token) ==
    IF token \in DOMAIN openers THEN openers[token]
    ELSE IF Suffix(token, 2) = DOT_SPACE THEN OLI_PREFIX \o DropLast(token, 2)
    ELSE <<>>

closed_by_newline ==
    {<<"#">>, <<"#", "#">>, <<"#", "#", "#">>, <<"#", "#", "#", "#">>,
     <<"#", "#", "#", "#", "#">>, <<"#", "#", "#", "#", "#", "#">>,
     <<">", " ">>, <<"-", " ">>, <<"*", " ">>}

\* the dict delimiters: closer -> the openers it may close
delimiters ==
    (<<"*">> :> {<<"*">>})
    @@ (<<"*", "*">> :> {<<"*", "*">>})
    @@ (<<"_">> :> {<<"_">>})
    @@ (<<"_", "_">> :> {<<"_", "_">>})
    @@ (<<"]", "]">> :> {<<"!", "[", "[">>, <<"[", "[">>})
    @@ (NEWLINE :> closed_by_newline)
    @@ (TWO_NEWLINES :> closed_by_newline)
    @@ (<<BT, BT, BT>> :> {<<BT, BT, BT>>})
    @@ (<<BT>> :> {<<BT>>})
    @@ (<<")">> :> {<<"[">>})

\* DelimiterStack.peek
stack_peek(stack) == IF stack = <<>> THEN NoneValue ELSE Last(stack)[2]

should_close(stack, token) ==
    \/ stack_peek(stack) \in delimiters[token]
    \/ /\ stack # <<>>
       /\ stack_peek(stack) # <<>>
       /\ Suffix(stack_peek(stack), 2) = DOT_SPACE
       /\ IsSubstring(token, TWO_NEWLINES)

not_in_codeblock_block_only(stack) == stack_peek(stack) # <<BT, BT, BT>>

not_in_codeblock(stack) == stack_peek(stack) \notin {<<BT, BT, BT>>, <<BT>>}

is_opener(token) ==
    IF token \in DOMAIN openers \/ Suffix(token, 2) = DOT_SPACE
    THEN IF Suffix(token, 2) = DOT_SPACE
         THEN int_parses(DropLast(token, 2)) ELSE TRUE
    ELSE FALSE

reject_inside ==
    (<<"_", "_">> :> <<"*", "*">>)
    @@ (<<"_">> :> <<"*">>)
    @@ (<<"*">> :> <<"_">>)
    @@ (<<"*", "*">> :> <<"_", "_">>)

stack_tokens(stack) == {stack[k][2] : k \in 1..Len(stack)}

accept_opener(stack, token) ==
    IF token \in DOMAIN reject_inside /\ reject_inside[token] \in stack_tokens(stack)
    THEN FALSE
    ELSE IF stack_peek(stack) = <<"[">>
            /\ token \notin {<<"*">>, <<"*", "*">>, <<"_", "_">>, <<"_">>}
    THEN FALSE
    ELSE IF not_in_codeblock(stack) THEN TRUE
    ELSE IF stack = <<>> THEN TRUE
    ELSE FALSE

set_processed(dp, index, token) ==
    [dp EXCEPT !.processed_tokens =
        [k \in DOMAIN @ \cup {index} |-> IF k = index THEN token ELSE @[k]]]

process_closing_delimiter_discarding(dp, index, token) ==
    LET opener == Last(dp.delimiter_stack)
        popped == [dp EXCEPT !.delimiter_stack = Front(@),
                             !.external_link_correct =
                                 IF token = <<")">> THEN FALSE ELSE @]
    IN  IF token = <<")">> /\ ~dp.external_link_correct THEN popped
        ELSE set_processed(set_processed(popped, opener[1], get_opener(opener[2])),
                           index, T_CLOSE)

process_closing_delimiter_closer_only(dp, index, token) ==
    IF token = <<")">> /\ ~dp.external_link_correct THEN dp
    ELSE LET popped == [dp EXCEPT !.delimiter_stack = Front(@),
                                  !.external_link_correct =
                                      IF token = <<")">> THEN FALSE ELSE @]
         IN  set_processed(popped, index, T_CLOSE)

process_closing_delimiter(dp, index, token) ==
    IF token = <<")">> /\ ~dp.external_link_correct THEN dp
    ELSE LET opener == Last(dp.delimiter_stack)
             popped == [dp EXCEPT !.delimiter_stack = Front(@),
                                  !.external_link_correct =
                                      IF token = <<")">> THEN FALSE ELSE @]
         IN  set_processed(set_processed(popped, opener[1], get_opener(opener[2])),
                           index, T_CLOSE)

\* lines 405-408: push an accepted opener
push_opener(dp, index, token) ==
    IF is_opener(token) /\ accept_opener(dp.delimiter_stack, token)
    THEN [dp EXCEPT !.delimiter_stack = Append(@, <<index, token>>)]
    ELSE dp

\* lines 410-414: a newline keeps only the code openers on the stack
SelectCode(stack) ==
    SelectSeq(stack, LAMBDA d : IsSubstring(d[2], <<BT, BT, BT>>))

clear_on_newline_top_only(dp, index, token) ==
    IF IsSubstring(token, TWO_NEWLINES)
    THEN LET kept == [dp EXCEPT !.delimiter_stack =
                         IF @ = <<>> \/ IsSubstring(Last(@)[2], <<BT, BT, BT>>)
                         THEN @ ELSE Front(@)]
         IN  IF kept.delimiter_stack = <<>>
             THEN set_processed(kept, index, T_LINE_BREAK) ELSE kept
    ELSE dp

clear_on_newline(dp, index, token) ==
    IF IsSubstring(token, TWO_NEWLINES)
    THEN LET kept == [dp EXCEPT !.delimiter_stack = SelectCode(@)]
         IN  IF kept.delimiter_stack = <<>>
             THEN set_processed(kept, index, T_LINE_BREAK) ELSE kept
    ELSE dp

\* lines 416-422: the pipe test reads None when the stack is empty, and the
\* three assignments name the undefined global processed_tokens
reclassify(dp, index, token) ==
    IF token = <<"|">>
    THEN IF dp.delimiter_stack = <<>> THEN [dp EXCEPT !.raised = "TypeError"]
         ELSE IF IsSubstring(<<"[", "[">>, stack_peek(dp.delimiter_stack))
         THEN [dp EXCEPT !.raised = "NameError"]
         ELSE dp
    ELSE IF token = <<"\t">> /\ not_in_codeblock(dp.delimiter_stack)
    THEN [dp EXCEPT !.raised = "NameError"]
    ELSE IF token = <<"-", "-", "-">> /\ not_in_codeblock(dp.delimiter_stack)
    THEN [dp EXCEPT !.raised = "NameError"]
    ELSE dp

\* one iteration of the for loop of process_tokens (lines 392-422)
process_token(dp, index, token) ==
    IF token = <<"]", "(">> /\ stack_peek(dp.delimiter_stack) = <<"[">>
    THEN [set_processed(dp, index, T_LINK_BREAK)
             EXCEPT !.external_link_correct = TRUE]
    ELSE IF token \in DOMAIN delimiters /\ should_close(dp.delimiter_stack, token)
    THEN process_closing_delimiter(dp, index, token)
    ELSE reclassify(clear_on_newline(push_opener(dp, index, token), index, token),
                    index, token)

\* lines 424-428: the comprehension names the undefined global
\* processed_tokens, which is evaluated as soon as there is one token
build_new_tokens_raises(toks) == toks # <<>>

build_new_tokens(dp, toks) ==
    [k \in 1..Len(toks) |->
        IF k \in DOMAIN dp.processed_tokens THEN dp.processed_tokens[k] ELSE toks[k]]

delimiter_processor == [delimiter_stack |-> delimiter_stack,
                        processed_tokens |-> processed_tokens,
                        external_link_correct |-> external_link_correct,
                        raised |-> raised]

-----------------------------------------------------------------------------
(* Element (src/tree.py 7-31): a member is modelled by its name, so that   *)
(* Element[token[1:]] is a lookup of the token's spelling.                 *)

E_ROOT == <<"R", "O", "O", "T">>
E_STRONG == <<"S", "T", "R", "O", "N", "G">>
E_EM == <<"E", "M">>
E_PARAGRAPH == <<"P", "A", "R", "A", "G", "R", "A", "P", "H">>
E_H1 == <<"H", "1">>
E_H2 == <<"H", "2">>
E_H3 == <<"H", "3">>
E_H4 == <<"H", "4">>
E_H5 == <<"H", "5">>
E_H6 == <<"H", "6">>
E_TAG == <<"T", "A", "G">>
E_LINE_BREAK == <<"L", "I", "N", "E", "_", "B", "R", "E", "A", "K">>
E_INTERNAL_LINK == <<"I", "N", "T", "E", "R", "N", "A", "L", "_", "L", "I", "N", "K">>
E_EMBED_LINK == <<"E", "M", "B", "E", "D", "_", "L", "I", "N", "K">>
E_EXTERNAL_LINK == <<"E", "X", "T", "E", "R", "N", "A", "L", "_", "L", "I", "N", "K">>
E_BLOCK_QUOTE == <<"B", "L", "O", "C", "K", "_", "Q", "U", "O", "T", "E">>
E_ITEM == <<"I", "T", "E", "M">>
E_UNORDERED_LIST == <<"U", "N", "O", "R", "D", "E", "R", "E", "D", "_", "L", "I", "S", "T">>
E_ORDERED_LIST == <<"O", "R", "D", "E", "R", "E", "D", "_", "L", "I", "S", "T">>
E_CODE == <<"C", "O", "D", "E">>
E_CODEBLOCK == <<"C", "O", "D", "E", "B", "L", "O", "C", "K">>
E_HBAR == <<"H", "B", "A", "R">>
E_FRONTMATTER == <<"F", "R", "O", "N", "T", "M", "A", "T", "T", "E", "R">>
E_IMAGE == <<"I", "M", "A", "G", "E">>

ElementNames ==
    {E_ROOT, E_STRONG, E_EM, E_PARAGRAPH, E_H1,
     E_H2, E_H3, E_H4, E_H5, E_H6,
     E_TAG, E_LINE_BREAK, E_INTERNAL_LINK, E_EMBED_LINK, E_EXTERNAL_LINK,
     E_BLOCK_QUOTE, E_ITEM, E_UNORDERED_LIST, E_ORDERED_LIST, E_CODE,
     E_CODEBLOCK, E_HBAR, E_FRONTMATTER, E_IMAGE}

\* a Node.value: an Element member or a str
Elem(name) == [el |-> TRUE, v |-> name]
Str(token) == [el |-> FALSE, v |-> token]

-----------------------------------------------------------------------------
(* Node (src/tree.py 34-297).  The objects live in the arena ns, a         *)
(* sequence of records; a Node reference is its index, None is 0, and      *)
(* node.root is always index 1.  The tree builder is the record            *)
(* tr = [nodes, raised].                                                   *)

closed_by_default == {E_TAG, E_LINE_BREAK, E_HBAR}

is_initially_closed(value) ==
    IF ~value.el THEN TRUE ELSE value.v \in closed_by_default

Node(value, parent) ==
    [value |-> value, closed |-> is_initially_closed(value),
     parent |-> parent, children |-> <<>>, link_to |-> <<>>,
     list_indent |-> 0, start_number |-> 1, tab_count |-> 0,
     image_width |-> <<>>, image_height |-> <<>>]

last_child(ns, self) ==
    IF ns[self].children = <<>> THEN 0 ELSE Last(ns[self].children)

add_child(ns, self, value) ==
    Append([ns EXCEPT ![self].children = Append(@, Len(ns) + 1)],
           Node(value, self))

last_child_open(ns, self) ==
    ns[self].children # <<>> /\ ~ns[last_child(ns, self)].closed

RECURSIVE close_children(_, _)
RECURSIVE close_open_children(_, _)
\* close_children that flips the node's own flag instead of setting it
close_children_toggling(ns, self) ==
    [close_open_children(ns, ns[self].children) EXCEPT ![self].closed = ~@]

close_open_children(ns, kids) ==
    IF kids = <<>> THEN ns
    ELSE close_open_children(IF ~ns[Head(kids)].closed
                             THEN close_children(ns, Head(kids)) ELSE ns,
                             Tail(kids))

close_children(ns, self) ==
    [close_open_children(ns, ns[self].children) EXCEPT ![self].closed = TRUE]

check_if_frontmatter(ns, self) ==
    IF ns[self].value = Elem(E_ROOT)
    THEN \/ ns[self].children = <<>>
         \/ /\ Len(ns[self].children) = 1
            /\ ns[ns[self].children[1]].value = Elem(E_FRONTMATTER)
    ELSE FALSE

begin_or_end_frontmatter(ns, self) ==
    IF ns[self].children = <<>> THEN add_child(ns, self, Elem(E_FRONTMATTER))
    ELSE IF ns[ns[self].children[1]].value = Elem(E_FRONTMATTER)
    THEN close_children(ns, self)
    ELSE ns

top_level_elements ==
    {T_H1, T_H2, T_H3, T_H4, T_H5, T_H6, T_BLOCK_QUOTE, T_HBAR}

RECURSIVE remove_trailing_line_breaks(_, _)
remove_trailing_line_breaks(ns, self) ==
    IF ns[self].children # <<>>
       /\ ns[last_child(ns, self)].value = Elem(E_LINE_BREAK)
    THEN remove_trailing_line_breaks(
             [ns EXCEPT ![self].children = Front(@)], self)
    ELSE ns

internal_link_has_no_display_text(ns, self) ==
    /\ ns[self].value \in {Elem(E_INTERNAL_LINK), Elem(E_EMBED_LINK)}
    /\ ns[self].children # <<>>
    /\ ns[self].link_to = <<>>

evaluate_token(token) ==
    IF token[1] = "!" /\ Tail(token) \in ElementNames
    THEN Elem(Tail(token)) ELSE Str(token)

\* str(node.value): an Enum member prints as Element.NAME
value_str(value) ==
    IF value.el
    THEN <<"E", "l", "e", "m", "e", "n", "t", ".">> \o value.v ELSE value.v

\* Node.__str__
node_str(ns, n) ==
    IF ns[n].link_to # <<>>
    THEN value_str(ns[n].value) \o <<" ", "t", "o", " ">> \o ns[n].link_to
    ELSE value_str(ns[n].value)

children_str(ns, self) ==
    Concat([k \in 1..Len(ns[self].children) |-> node_str(ns, ns[self].children[k])])

children_value_str(ns, self) ==
    Concat([k \in 1..Len(ns[self].children) |->
               value_str(ns[ns[self].children[k]].value)])

\* is_digits that looks at the first character only
is_digits_first_only(str) == str = <<>> \/ Head(str) \in digits

is_digits(str) == \A k \in 1..Len(str) : str[k] \in digits

\* str.partition(sep) for a one-character separator: <<before, sep, after>>
partition(str, sep) ==
    LET hits == {k \in 1..Len(str) : str[k] = sep}
        at == CHOOSE k \in hits : \A j \in hits : k <= j
    IN  IF hits = {} THEN <<str, <<>>, <<>>>>
        ELSE <<SubSeq(str, 1, at - 1), <<sep>>, SubSeq(str, at + 1, Len(str))>>

\* the value of int(str) when int_parses(str)
RECURSIVE digits_value(_, _)
digits_value(str, acc) ==
    IF str = <<>> THEN acc
    ELSE IF Head(str) = "_" THEN digits_value(Tail(str), acc)
    ELSE digits_value(Tail(str),
             10 * acc + (CHOOSE d \in 0..9 :
                 <<"0", "1", "2", "3", "4", "5", "6", "7", "8", "9">>[d + 1]
                     = Head(str)))

int_value(str) ==
    LET t == strip(str)
    IN  IF Head(t) = "-" THEN 0 - digits_value(Tail(t), 0)
        ELSE IF Head(t) = "+" THEN digits_value(Tail(t), 0)
        ELSE digits_value(t, 0)

\* process_external_link; list.index raises ValueError without the marker
process_external_link_raises(ns, self) ==
    \A k \in 1..Len(ns[self].children) :
        value_str(ns[ns[self].children[k]].value) # T_LINK_BREAK

process_external_link(ns, self) ==
    LET kids == ns[self].children
        hits == {k \in 1..Len(kids) : value_str(ns[kids[k]].value) = T_LINK_BREAK}
        break_index == CHOOSE k \in hits : \A j \in hits : k <= j
    IN  [ns EXCEPT ![self].link_to =
                       Concat([k \in 1..(Len(kids) - break_index) |->
                                  value_str(ns[kids[break_index + k]].value)]),
                   ![self].children = SubSeq(kids, 1, break_index - 1)]

image_extensions == {<<".", "j", "p", "g">>, <<".", "p", "n", "g">>}

\* lines 169-178 of close_links_and_embeds
make_image(ns, self) ==
    IF ns[self].value = Elem(E_EMBED_LINK)
       /\ Suffix(ns[self].link_to, 4) \in image_extensions
    THEN LET parts == partition(children_value_str(ns, self), "x")
             ok == is_digits(parts[1]) /\ is_digits(parts[3])
         IN  IF ns[self].children # <<>>
             THEN [ns EXCEPT ![self].value = Elem(E_IMAGE),
                             ![self].image_width = IF ok THEN parts[1] ELSE <<>>,
                             ![self].image_height = IF ok THEN parts[3] ELSE <<>>,
                             ![self].children = <<>>]
             ELSE [ns EXCEPT ![self].value = Elem(E_IMAGE)]
    ELSE ns

close_links_and_embeds(tr, self) ==
    IF tr.nodes[self].value = Elem(E_EXTERNAL_LINK)
       /\ process_external_link_raises(tr.nodes, self)
    THEN [tr EXCEPT !.raised = "ValueError"]
    ELSE LET n1 == IF tr.nodes[self].value = Elem(E_EXTERNAL_LINK)
                   THEN process_external_link(tr.nodes, self) ELSE tr.nodes
             n2 == IF internal_link_has_no_display_text(n1, self)
                   THEN [n1 EXCEPT ![self].link_to = children_str(n1, self)]
                   ELSE n1
         IN  [tr EXCEPT !.nodes = make_image(n2, self)]

list_nodes == {Elem(E_UNORDERED_LIST), Elem(E_ORDERED_LIST)}

\* the attempt bound of the while loop of find_correct_list
MaxTries == 5

\* add_nested_list with the new list kept at the depth of the list it is
\* added to
add_nested_list_same_indent(ns, current, list_type, list_number) ==
    LET added == add_child(ns, current, list_type)
        id == Len(added)
    IN  [added EXCEPT ![id].start_number =
                          IF list_number # 0 THEN list_number ELSE @,
                      ![id].list_indent = ns[current].list_indent]

\* add_nested_list that leaves list_indent at the default of a new node
add_nested_list_default_indent(ns, current, list_type, list_number) ==
    LET added == add_child(ns, current, list_type)
        id == Len(added)
    IN  [added EXCEPT ![id].start_number =
                          IF list_number # 0 THEN list_number ELSE @]

\* add_child(list_type) with start_number and list_indent set (lines 202-205)
add_nested_list(ns, current, list_type, list_number) ==
    LET added == add_child(ns, current, list_type)
        id == Len(added)
    IN  [added EXCEPT ![id].start_number =
                          IF list_number # 0 THEN list_number ELSE @,
                      ![id].list_indent = ns[current].list_indent + 1]

\* the while loop (lines 198-209): <<arena, correct_list>>, correct_list = 0
\* when the loop ends with the local unassigned
RECURSIVE find_list_loop(_, _, _, _, _, _)
find_list_loop(ns, self, current, try_count, list_type, list_number) ==
    IF try_count >= MaxTries THEN <<ns, 0>>
    ELSE LET descend == ns[current].children # <<>>
                        /\ ns[last_child(ns, current)].value \in list_nodes
             node == IF descend THEN last_child(ns, current) ELSE current
             ns1 == IF descend THEN ns
                    ELSE add_nested_list(ns, current, list_type, list_number)
         IN  IF ns1[self].tab_count = ns1[node].list_indent
             THEN <<ns1, node>>
             ELSE find_list_loop(ns1, self, node, try_count + 1,
                                 list_type, list_number)

find_correct_list_raises(token) ==
    token # T_ITEM /\ ~int_parses(partition(token, "_")[3])

\* <<arena, correct_list>>
find_correct_list(ns, self, token) ==
    LET list_type == IF token = T_ITEM THEN Elem(E_UNORDERED_LIST)
                     ELSE Elem(E_ORDERED_LIST)
        list_number == IF list_type = Elem(E_ORDERED_LIST)
                       THEN int_value(partition(token, "_")[3]) ELSE 0
    IN  IF ns[self].tab_count = 0
        THEN IF last_child(ns, self) # 0
                /\ ns[last_child(ns, self)].value = list_type
             THEN <<ns, last_child(ns, self)>>
             ELSE LET added == add_child(ns, self, list_type)
                  IN  <<[added EXCEPT ![Len(added)].start_number =
                            IF list_number # 0 THEN list_number ELSE @],
                        Len(added)>>
        ELSE find_list_loop(ns, self, self, 0, list_type, list_number)

\* lines 98-102 of catch_token
catch_list_item(tr, self, token) ==
    IF find_correct_list_raises(token) THEN [tr EXCEPT !.raised = "ValueError"]
    ELSE LET found == find_correct_list(tr.nodes, self, token)
         IN  IF found[2] = 0
             THEN [tr EXCEPT !.nodes = found[1], !.raised = "UnboundLocalError"]
             ELSE [tr EXCEPT !.nodes =
                      [add_child(found[1], found[2], Elem(E_ITEM))
                          EXCEPT ![1].tab_count = 0]]

\* handle_line_breaks names the undefined global token in every branch but
\* the list one
handle_line_breaks(tr, self) ==
    LET ns == tr.nodes
    IN  IF last_child(ns, self) # 0
           /\ ns[last_child(ns, self)].value = Elem(E_LINE_BREAK)
        THEN [tr EXCEPT !.nodes[self].children = Front(@),
                        !.raised = "NameError"]
        ELSE IF ns[self].value \in list_nodes
        THEN [tr EXCEPT !.nodes = close_children(ns, 1)]
        ELSE [tr EXCEPT !.raised = "NameError"]

catch_pipe(ns, self) ==
    IF ns[self].children # <<>>
    THEN [ns EXCEPT ![self].link_to = children_str(ns, self),
                    ![self].children = <<>>]
    ELSE ns

\* needs_paragraph that wraps literal text only
needs_paragraph_text_only(new_value) == ~new_value.el

\* lines 140-141 of catch_token: the values that root wraps in a Paragraph
needs_paragraph(new_value) ==
    ~new_value.el \/ new_value \in {Elem(E_EM), Elem(E_STRONG)}

RECURSIVE catch_token(_, _, _)
RECURSIVE catch_in_branch(_, _, _)

\* lines 112-147 of catch_token: the recursion step and the branch cases
catch_in_branch(tr, self, token) ==
    LET ns == tr.nodes
        new_value == evaluate_token(token)
    IN  IF last_child_open(ns, self)
        THEN catch_token(tr, last_child(ns, self), token)
        ELSE IF token = T_CLOSE
        THEN close_links_and_embeds([tr EXCEPT !.nodes[self].closed = TRUE], self)
        ELSE IF token = T_LINE_BREAK THEN handle_line_breaks(tr, self)
        ELSE IF token = T_PIPE
                /\ ns[self].value \in {Elem(E_INTERNAL_LINK), Elem(E_EMBED_LINK)}
        THEN [tr EXCEPT !.nodes = catch_pipe(ns, self)]
        ELSE IF token = EOF_TOKEN
        THEN [tr EXCEPT !.nodes = remove_trailing_line_breaks(ns, self)]
        ELSE IF ns[self].value = Elem(E_ROOT) /\ needs_paragraph(new_value)
        THEN catch_token(
                 [tr EXCEPT !.nodes =
                     add_child(remove_trailing_line_breaks(ns, self), self,
                               Elem(E_PARAGRAPH))],
                 self, token)
        ELSE [tr EXCEPT !.nodes = add_child(ns, self, new_value)]

\* lines 86-110 of catch_token: the special cases of the root node
catch_token(tr, self, token) ==
    LET ns == tr.nodes
        is_root == ns[self].value = Elem(E_ROOT)
    IN  IF is_root /\ token = T_HBAR /\ check_if_frontmatter(ns, self)
        THEN catch_in_branch(
                 [tr EXCEPT !.nodes = begin_or_end_frontmatter(ns, self)],
                 self, token)
        ELSE IF is_root /\ token = T_TAB
        THEN [tr EXCEPT !.nodes[self].tab_count = @ + 1]
        ELSE IF is_root /\ (token = T_ITEM \/ Prefix(token, 5) = OLI_PREFIX)
        THEN catch_list_item(tr, self, token)
        ELSE IF is_root /\ token \in top_level_elements
        THEN [tr EXCEPT !.nodes =
                 add_child(close_children(remove_trailing_line_breaks(ns, self),
                                          self),
                           self, evaluate_token(token))]
        ELSE catch_in_branch(tr, self, token)

tree_builder == [nodes |-> nodes, raised |-> raised]

-----------------------------------------------------------------------------
(* The runs.  A run of the pipeline takes a text through Tokeniser and     *)
(* DelimiterProcessor; the resolver and the tree builder are also run on   *)
(* their own, on every short token sequence.                               *)

TextAlphabet ==
    {"a", "1", ".", " ", "\n", "\t", "*", "_", "#", "-", "|", "[", "]", "("}

TextCorpus ==
    {<<"h", "e", "l", "l", "o">>,
     <<"1", "a", "b", "c">>,
     <<"1", "2">>,
     <<"*", "h", "e", "l", "l", "o">>,
     <<"*", "*", "a", "*", "*">>,
     <<"_", "_", "a", "_", "_">>,
     <<"_", "a", "_">>,
     <<"*", "a", "_", "b", "*", "c", "_">>,
     <<"#", " ", "T", "i", "t", "l", "e", "\n">>,
     <<"#", "#", " ", "a", "\n">>,
     <<"#", "#", "#", "#", "#", "#", " ", "a", "\n">>,
     <<"#", "#", "#", "#", "#", "#", "#", " ", "a">>,
     <<"#", "#", "#", "#", "#", "#", "#", "#", " ", "a">>,
     <<" ", " ", " ", " ", "a">>,
     <<"a", " ", " ", " ", " ", "b">>,
     <<"a", "\n", " ", " ", " ", "b">>,
     <<BT, "a", BT>>,
     <<"a", BT, BT, BT, "b">>,
     <<"\\", "#", "\n">>,
     <<"\\", "*", "_", "a", "_", "\\", "*">>,
     <<"\\", "1", "2", ".", " ", "*">>,
     <<"!", "a">>,
     <<"a", "\n", "-", "b">>}

RECURSIVE SeqsUpTo(_, _)
SeqsUpTo(S, n) ==
    IF n = 0 THEN {<<>>}
    ELSE LET shorter == SeqsUpTo(S, n - 1)
         IN  shorter \cup {Append(t, c) : t \in shorter, c \in S}

Texts == SeqsUpTo(TextAlphabet, MaxTextLen) \cup TextCorpus

ResolverTokens ==
    {<<"*">>, <<"*", "*">>, <<"_">>, <<"_", "_">>, <<"#">>, <<"-", " ">>,
     <<"[", "[">>, <<"!", "[", "[">>, <<"[">>, <<BT>>, <<BT, BT, BT>>,
     <<"]", "]">>,
     NEWLINE, <<")">>, <<"]", "(">>, <<"|">>, <<"\t">>, <<"-", "-", "-">>,
     <<"a">>, <<"1", ".", " ">>, EOF_TOKEN}

\* longer token lists the resolver is also run on
ResolverCorpus ==
    {<<<<"[">>, <<"]", "(">>, NEWLINE, <<"[">>, <<")">>>>,
     <<<<"#">>, <<"*">>, <<"a">>, <<"*">>, NEWLINE>>,
     <<<<"*">>, <<"_", "_">>, <<"a">>, <<"_", "_">>, <<"*">>>>,
     <<<<"[">>, <<"*">>, <<"a">>, <<"*">>, <<"]", "(">>, <<"a">>, <<")">>>>,
     <<<<BT>>, <<"*">>, <<"\t">>, NEWLINE, <<"*">>, <<BT>>>>}

OLI_2 == OLI_PREFIX \o <<"2">>

T_TAG == <<"!", "T", "A", "G">>

TreeTokens ==
    {T_ITEM, OLI_2, T_TAB, T_CLOSE, T_LINE_BREAK, T_HBAR, T_H1, T_EM,
     T_STRONG, T_TAG, <<"a">>, EOF_TOKEN}

\* longer token streams the tree builder is also run on
TreeCorpus ==
    {<<T_ITEM, T_ITEM, T_TAB, T_ITEM, T_ITEM>>,
     <<T_ITEM, <<"a">>, T_CLOSE, T_ITEM, <<"a">>, T_CLOSE,
       T_TAB, T_ITEM, <<"a">>, T_CLOSE, T_ITEM, <<"a">>, T_CLOSE, EOF_TOKEN>>,
     <<T_HBAR, <<"a">>, <<"a">>, T_HBAR, <<"a">>, EOF_TOKEN>>}

IsPrefix(p, q) == Len(p) <= Len(q) /\ SubSeq(q, 1, Len(p)) = p

InitCommon ==
    /\ raised = ""
    /\ cursor = 0
    /\ current_token = <<>>
    /\ tok_index = 1
    /\ delimiter_stack = <<>>
    /\ processed_tokens = <<>>
    /\ external_link_correct = FALSE
    /\ new_tokens = <<>>
    /\ nodes = <<Node(Elem(E_ROOT), 0)>>
    /\ fed = <<>>
    /\ peeked = <<>>

\* Tokeniser(StringPeek(text)), tokens = []
Init ==
    /\ InitCommon
    /\ pc = "tokenise"
    /\ text \in Texts
    /\ tokens = <<>>

\* DelimiterProcessor(tokens) on a token list of its own
InitResolver ==
    /\ InitCommon
    /\ pc = "resolve"
    /\ text = <<>>
    /\ tokens = <<>>

\* Node(Element.ROOT, parent=None, root=None)
InitTree ==
    /\ InitCommon
    /\ pc = "build"
    /\ text = <<>>
    /\ tokens = <<>>

\* Tokeniser.next, one call of the loop of Tokeniser.tokenise
Tokeniser_next ==
    /\ pc = "tokenise"
    /\ LET c == read(text, cursor, 1)
           t1 == advance(text, tokeniser_state, 1)
           eof == emit(end_current_token(tokeniser_state), EOF_TOKEN)
           t2 == process(text, t1, c[1])
       IN  IF c = <<>>
           THEN /\ tokens' = eof.tokens
                /\ current_token' = eof.current_token
                /\ cursor' = cursor
                /\ pc' = "resolve"
           ELSE IF calls_numbered_list(text, t1, c[1])
                   /\ handle_numbered_list_loops(text, t1.cursor)
           THEN /\ cursor' = t1.cursor
                /\ pc' = "hang"
                /\ UNCHANGED <<tokens, current_token>>
           ELSE /\ tokens' = t2.tokens
                /\ current_token' = t2.current_token
                /\ cursor' = t2.cursor
                /\ pc' = "tokenise"
    /\ UNCHANGED <<raised, text, tok_index, delimiter_stack, processed_tokens,
                   external_link_correct, new_tokens, nodes, fed, peeked>>

\* the effect of one loop iteration of process_tokens on the variables
ResolveToken(index, token) ==
    LET dp == process_token(delimiter_processor, index, token)
    IN  /\ delimiter_stack' = dp.delimiter_stack
        /\ processed_tokens' = dp.processed_tokens
        /\ external_link_correct' = dp.external_link_correct
        /\ raised' = dp.raised
        /\ tok_index' = index + 1
        /\ pc' = IF dp.raised # "" THEN "raised" ELSE "resolve"

\* one iteration of the for loop of DelimiterProcessor.process_tokens
process_tokens_step ==
    /\ pc = "resolve"
    /\ tok_index <= Len(tokens)
    /\ ResolveToken(tok_index, tokens[tok_index])
    /\ UNCHANGED <<text, cursor, current_token, tokens, new_tokens, nodes, fed,
                   peeked>>

\* the same iteration on a token list that is chosen as it is consumed
process_tokens_feed ==
    /\ pc = "resolve"
    /\ tok_index = Len(tokens) + 1
    /\ \E token \in ResolverTokens :
          /\ \/ Len(tokens) < MaxTokens
             \/ \E script \in ResolverCorpus :
                    IsPrefix(Append(tokens, token), script)
          /\ tokens' = Append(tokens, token)
          /\ ResolveToken(tok_index, token)
    /\ UNCHANGED <<text, cursor, current_token, new_tokens, nodes, fed, peeked>>

\* the end of process_tokens: new_tokens is built and returned
process_tokens_return ==
    /\ pc = "resolve"
    /\ tok_index > Len(tokens)
    /\ IF build_new_tokens_raises(tokens)
       THEN /\ raised' = "NameError"
            /\ pc' = "raised"
            /\ UNCHANGED new_tokens
       ELSE /\ new_tokens' = build_new_tokens(delimiter_processor, tokens)
            /\ pc' = "returned"
            /\ UNCHANGED raised
    /\ UNCHANGED <<text, cursor, current_token, tokens, tok_index,
                   delimiter_stack, processed_tokens, external_link_correct,
                   nodes, fed, peeked>>

\* root.catch_token(token) for the next token of the stream
catch_token_step ==
    /\ pc = "build"
    /\ \E token \in TreeTokens :
          /\ \/ Len(fed) < MaxTreeTokens
             \/ \E script \in TreeCorpus : IsPrefix(Append(fed, token), script)
          /\ LET tr == catch_token(tree_builder, 1, token)
             IN  /\ nodes' = tr.nodes
                 /\ raised' = tr.raised
                 /\ pc' = IF tr.raised # "" THEN "raised" ELSE "build"
          /\ fed' = Append(fed, token)
    /\ UNCHANGED <<text, cursor, current_token, tokens, tok_index,
                   delimiter_stack, processed_tokens, external_link_correct,
                   new_tokens, peeked>>

Next == Tokeniser_next \/ process_tokens_step \/ process_tokens_return

NextResolver == process_tokens_feed \/ process_tokens_return

NextTree == catch_token_step

\* text -> Tokeniser -> DelimiterProcessor
Spec == Init /\ [][Next]_vars

\* DelimiterProcessor on every token list
SpecResolver == InitResolver /\ [][NextResolver]_vars

\* Node.catch_token on every token stream
SpecTree == InitTree /\ [][NextTree]_vars

\* the tree a token list builds: the loop of parse
(* StringPeek on its own: reads and look-aheads at any cursor position.     *)

MaxPeekOffset == 4

PeekTexts == SeqsUpTo({"a", "b"}, MaxTextLen)

PeekOffsets == (0 - MaxPeekOffset)..MaxPeekOffset

\* StringPeek(text)
InitPeek ==
    /\ InitCommon
    /\ pc = "peek"
    /\ text \in PeekTexts
    /\ tokens = <<>>

UnchangedByPeek ==
    UNCHANGED <<text, current_token, tokens, tok_index, delimiter_stack,
                processed_tokens, external_link_correct, new_tokens, nodes, fed>>

\* io.StringIO.read(1)
StringPeek_read ==
    /\ pc = "peek"
    /\ peeked' = read(text, cursor, 1)
    /\ cursor' = read_cursor(text, cursor, 1)
    /\ UNCHANGED <<pc, raised>>
    /\ UnchangedByPeek

StringPeek_peek ==
    /\ pc = "peek"
    /\ \E count \in PeekOffsets :
          IF peek_raises(text, cursor, count)
          THEN /\ raised' = "ValueError"
               /\ pc' = "raised"
               /\ UNCHANGED peeked
          ELSE /\ peeked' = peek(text, cursor, count)
               /\ UNCHANGED <<pc, raised>>
    /\ UNCHANGED cursor
    /\ UnchangedByPeek

StringPeek_peek_char ==
    /\ pc = "peek"
    /\ \E offset \in PeekOffsets :
          IF peek_char_raises(text, cursor, offset)
          THEN /\ raised' = "ValueError"
               /\ pc' = "raised"
               /\ UNCHANGED peeked
          ELSE /\ peeked' = peek_char(text, cursor, offset)
               /\ UNCHANGED <<pc, raised>>
    /\ UNCHANGED cursor
    /\ UnchangedByPeek

StringPeek_relative_seek ==
    /\ pc = "peek"
    /\ \E offset \in PeekOffsets :
          /\ cursor + offset <= MaxTextLen + MaxPeekOffset
          /\ IF relative_seek(text, cursor, offset) < 0
             THEN /\ raised' = "ValueError"
                  /\ pc' = "raised"
                  /\ UNCHANGED cursor
             ELSE /\ cursor' = relative_seek(text, cursor, offset)
                  /\ UNCHANGED <<pc, raised>>
    /\ UNCHANGED peeked
    /\ UnchangedByPeek

NextPeek ==
    \/ StringPeek_read
    \/ StringPeek_peek
    \/ StringPeek_peek_char
    \/ StringPeek_relative_seek

SpecPeek == InitPeek /\ [][NextPeek]_vars

(* The tree builder fed link and embed tokens.                              *)

MaxLinkTokens == 4

PIC_JPG == <<"p", "i", "c", ".", "j", "p", "g">>
PIC_TXT == <<"p", "i", "c", ".", "t", "x", "t">>
DIM_200x100 == <<"2", "0", "0", "x", "1", "0", "0">>
DIM_200xabc == <<"2", "0", "0", "x", "a", "b", "c">>

LinkTokens ==
    {T_EMBED_LINK, T_INTERNAL_LINK, PIC_JPG, PIC_TXT, T_PIPE, DIM_200x100,
     DIM_200xabc, <<"2", "0", "0">>, T_EM, T_H1, T_CLOSE, EOF_TOKEN}

LinkCorpus ==
    {<<T_EMBED_LINK, PIC_JPG, T_PIPE, DIM_200x100, T_CLOSE, EOF_TOKEN>>,
     <<T_EMBED_LINK, PIC_JPG, T_PIPE, DIM_200xabc, T_CLOSE, EOF_TOKEN>>,
     <<T_EMBED_LINK, PIC_JPG, T_PIPE, <<"2", "0", "0">>, T_EM, <<"x">>,
       T_CLOSE, T_CLOSE>>}

catch_link_token_step ==
    /\ pc = "build"
    /\ \E token \in LinkTokens \cup {<<"x">>} :
          /\ \/ Len(fed) < MaxLinkTokens /\ token \in LinkTokens
             \/ \E script \in LinkCorpus : IsPrefix(Append(fed, token), script)
          /\ LET tr == catch_token(tree_builder, 1, token)
             IN  /\ nodes' = tr.nodes
                 /\ raised' = tr.raised
                 /\ pc' = IF tr.raised # "" THEN "raised" ELSE "build"
          /\ fed' = Append(fed, token)
    /\ UNCHANGED <<text, cursor, current_token, tokens, tok_index,
                   delimiter_stack, processed_tokens, external_link_correct,
                   new_tokens, peeked>>

NextLinks == catch_link_token_step

SpecLinks == InitTree /\ [][NextLinks]_vars

RECURSIVE build_from(_, _, _)
build_from(tr, toks, k) ==
    IF tr.raised # "" \/ k > Len(toks) THEN tr
    ELSE build_from(catch_token(tr, 1, toks[k]), toks, k + 1)

build_tree(toks) ==
    build_from([nodes |-> <<Node(Elem(E_ROOT), 0)>>, raised |-> ""], toks, 1)

-----------------------------------------------------------------------------
(* Vocabulary of the properties.                                           *)

\* the run of the pipeline is over
Ended == pc \in {"raised", "returned", "hang"}

\* Tokeniser.tokenise has returned
Tokenised == pc \in {"resolve", "raised", "returned"}

\* position k of s is the first significant character of its line: only
\* spaces and tabs lie between it and the preceding newline or the start
FirstSignificant(s, k) ==
    \A j \in 1..(k - 1) :
        (\A m \in j..(k - 1) : s[m] # "\n") => s[j] \in {" ", "\t"}

\* number of consecutive # from position k of s
RECURSIVE HashRun(_, _)
HashRun(s, k) ==
    IF k <= Len(s) /\ s[k] = "#" THEN 1 + HashRun(s, k + 1) ELSE 0

\* first position of the run of # that position k of s belongs to
RECURSIVE RunStart(_, _)
RunStart(s, k) ==
    IF k > 1 /\ s[k - 1] = "#" THEN RunStart(s, k - 1) ELSE k

NoTrigger(s) == \A k \in 1..Len(s) : s[k] \notin markdown_handlers

\* the nodes of the tree of arena ns below and including n
RECURSIVE Subtree(_, _)
Subtree(ns, n) ==
    {n} \cup UNION {Subtree(ns, ns[n].children[k]) : k \in 1..Len(ns[n].children)}

KindsOf(ns, kids) == [k \in 1..Len(kids) |-> ns[kids[k]].value]

\* Root has the single child Paragraph, which holds exactly the leaves
RootParagraphOf(ns, leaves) ==
    /\ Len(ns[1].children) = 1
    /\ ns[ns[1].children[1]].value = Elem(E_PARAGRAPH)
    /\ KindsOf(ns, ns[ns[1].children[1]].children) = leaves

\* Root has the single child Paragraph, whose children are text leaves that
\* together spell str
RootParagraphText(ns, str) ==
    /\ Len(ns[1].children) = 1
    /\ ns[ns[1].children[1]].value = Elem(E_PARAGRAPH)
    /\ LET leaves == KindsOf(ns, ns[ns[1].children[1]].children)
       IN  /\ \A k \in 1..Len(leaves) : ~leaves[k].el
           /\ Concat([k \in 1..Len(leaves) |-> leaves[k].v]) = str

\* Root -> Paragraph -> one node of the kind, holding exactly the leaves
RootParagraphSpan(ns, kind, leaves) ==
    /\ RootParagraphOf(ns, <<Elem(kind)>>)
    /\ KindsOf(ns, ns[ns[ns[1].children[1]].children[1]].children) = leaves

\* Root has the single child of the kind, closed, holding exactly the leaves
RootBlockOf(ns, kind, leaves) ==
    /\ Len(ns[1].children) = 1
    /\ ns[ns[1].children[1]].value = Elem(kind)
    /\ ns[ns[1].children[1]].closed
    /\ KindsOf(ns, ns[ns[1].children[1]].children) = leaves

-----------------------------------------------------------------------------
(* The claims.                                                             *)

\* C1: Tokeniser.tokenise terminates on every finite input text, also when a
\* digit at the first significant position of a line is followed only by
\* digits up to the end of input, and the last token it returns is the
\* end-of-stream token.
C1_TokeniseTerminates ==
    /\ pc # "hang"
    /\ Tokenised => (tokens # <<>> /\ Last(tokens) = EOF_TOKEN)

\* C2: for every input without a registered trigger character (the empty
\* input and digit-led lines included) the tokens are the one literal-text
\* token equal to the input followed by end-of-stream, the tree is Root with
\* the single Paragraph child holding that one text leaf, and nothing raises.
C2_PlainTextPipeline ==
    NoTrigger(text) =>
        /\ pc # "hang"
        /\ raised = ""
        /\ Tokenised => tokens = <<text, EOF_TOKEN>>
        /\ pc = "returned" =>
              /\ build_tree(new_tokens).raised = ""
              /\ RootParagraphOf(build_tree(new_tokens).nodes, <<Str(text)>>)

\* C3: the delimiter resolver is total: no token sequence makes it raise, and
\* a separator token or a link-target-break token met while the opener stack
\* is empty is left unchanged.
C3_ResolverTotal ==
    [][/\ raised' = ""
       /\ (/\ pc = "resolve"
           /\ delimiter_stack = <<>>
           /\ tok_index' = tok_index + 1
           /\ tokens'[tok_index] \in {<<"|">>, <<"]", "(">>})
          => processed_tokens' = processed_tokens]_vars

C4Texts == {<<"*", "a">>, <<"_", "a">>, <<"*", "*", "a">>, <<"*", "h", "e", "l", "l", "o">>}

\* C4: an opener that never meets a matching closer is left unchanged in the
\* resolver output and the tree builder renders it as literal text under a
\* Paragraph, with no Emphasis or Strong node: so for *hello.
C4_UnmatchedOpenerLiteral ==
    (text \in C4Texts /\ Ended) =>
        /\ pc = "returned"
        /\ new_tokens = tokens
        /\ build_tree(new_tokens).raised = ""
        /\ RootParagraphText(build_tree(new_tokens).nodes, text)

C5Texts ==
    {[t |-> <<"*", "a", "*">>, kind |-> E_EM],
     [t |-> <<"_", "a", "_">>, kind |-> E_EM],
     [t |-> <<"*", "*", "a", "*", "*">>, kind |-> E_STRONG],
     [t |-> <<"_", "_", "a", "_", "_">>, kind |-> E_STRONG]}

\* C5: a pair of identical emphasis markers around literal text is rewritten
\* to emphasis-open ... close and yields an Emphasis node holding exactly
\* that text; a pair of doubled markers yields a Strong node the same way.
C5_EmphasisPair ==
    \A c \in C5Texts :
        (text = c.t /\ Ended) =>
            /\ pc = "returned"
            /\ new_tokens = <<<<"!">> \o c.kind, <<"a">>, T_CLOSE, EOF_TOKEN>>
            /\ build_tree(new_tokens).raised = ""
            /\ RootParagraphSpan(build_tree(new_tokens).nodes, c.kind,
                                 <<Str(<<"a">>)>>)

\* no two members of a conflicting pair are on the opener stack together
NoConflictOnStack ==
    \A token \in DOMAIN reject_inside :
        ~({token, reject_inside[token]} \subseteq stack_tokens(delimiter_stack))

\* C6: an opener is never pushed while its conflicting counterpart is on the
\* stack, so the stack never holds both members of a conflicting pair; and
\* for *a_b*c_ exactly one Emphasis node results, both _ staying literal.
C6_ConflictingFamily ==
    /\ NoConflictOnStack
    /\ (text = <<"*", "a", "_", "b", "*", "c", "_">> /\ Ended) =>
          /\ pc = "returned"
          /\ new_tokens = <<T_EM, <<"a">>, <<"_">>, <<"b">>, T_CLOSE,
                            <<"c">>, <<"_">>, EOF_TOKEN>>
          /\ LET ns == build_tree(new_tokens).nodes
             IN  Cardinality({n \in Subtree(ns, 1) : ns[n].value = Elem(E_EM)}) = 1

C7Texts ==
    {[t |-> <<"#", " ", "T", "i", "t", "l", "e", "\n">>, kind |-> E_H1, body |-> <<"T", "i", "t", "l", "e">>],
     [t |-> <<"#", "#", " ", "a", "\n">>, kind |-> E_H2, body |-> <<"a">>],
     [t |-> <<"#", "#", "#", "#", "#", "#", " ", "a", "\n">>, kind |-> E_H6, body |-> <<"a">>]}

\* C7: a line of 1 to 6 # then a space, text and a newline yields a Heading
\* of that level directly under Root whose children are exactly the text,
\* closed at the newline.
C7_HeadingLine ==
    \A c \in C7Texts :
        (text = c.t /\ Ended) =>
            /\ pc = "returned"
            /\ build_tree(new_tokens).raised = ""
            /\ RootBlockOf(build_tree(new_tokens).nodes, c.kind, <<Str(c.body)>>)

\* C8: for a run of 7 or more # followed by a space at the first significant
\* position of a line, no heading token is emitted and the failed heading
\* probe consumes no characters: reading any # of the run emits no token and
\* moves the cursor by that one character.
C8_SevenHashesNoHeading ==
    [][(/\ pc = "tokenise"
        /\ cursor < Len(text)
        /\ text[cursor + 1] = "#"
        /\ LET start == RunStart(text, cursor + 1)
               run == HashRun(text, start)
           IN  /\ FirstSignificant(text, start)
               /\ run >= 7
               /\ start + run <= Len(text)
               /\ text[start + run] = " ")
       => (tokens' = tokens /\ cursor' = cursor + 1)]_vars

C9Scripts ==
    {<<T_ITEM, T_ITEM, T_TAB, T_ITEM, T_ITEM>>,
     <<T_ITEM, <<"a">>, T_CLOSE, T_ITEM, <<"a">>, T_CLOSE,
       T_TAB, T_ITEM, <<"a">>, T_CLOSE, T_ITEM, <<"a">>, T_CLOSE>>}

\* the outer list of the tree: Root's single child, an UnorderedList of
\* depth 0 whose children are item, item, list, item
C9_OuterList(ns) ==
    /\ Len(ns[1].children) = 1
    /\ ns[ns[1].children[1]].value = Elem(E_UNORDERED_LIST)
    /\ ns[ns[1].children[1]].list_indent = 0
    /\ Cardinality({n \in Subtree(ns, 1) : ns[n].value = Elem(E_ITEM)
                        /\ ns[n].parent = ns[1].children[1]}) = 3

\* the nested lists of depth 1, each holding one ListItem
C9_NestedLists(ns) ==
    {n \in Subtree(ns, 1) :
        /\ ns[n].value = Elem(E_UNORDERED_LIST)
        /\ ns[n].list_indent = 1
        /\ KindsOf(ns, ns[n].children) = <<Elem(E_ITEM)>>}

\* C9 as claimed: four bulleted items after 0, 0, 1 and 0 tabs give one
\* UnorderedList under Root with three ListItems at depth 0, and the nested
\* depth-1 list (one ListItem) lies inside the second ListItem's subtree,
\* not as a sibling of the ListItems.
C9_NestedInsideSecondItem ==
    (fed \in C9Scripts) =>
        /\ raised = ""
        /\ C9_OuterList(nodes)
        /\ \E n \in C9_NestedLists(nodes) :
              n \in Subtree(nodes, nodes[nodes[1].children[1]].children[2])

\* C9 as amended: processing the items raises at no point, and the nested
\* depth-1 list (one ListItem) is a direct child of the outer list, third
\* among its children after the second ListItem and before the last, and no
\* ListItem has a list in its subtree.
C9_NestedIsSiblingOfItems ==
    /\ (\E script \in C9Scripts : IsPrefix(fed, script)) => raised = ""
    /\ (fed \in C9Scripts) =>
        /\ C9_OuterList(nodes)
        /\ KindsOf(nodes, nodes[nodes[1].children[1]].children)
              = <<Elem(E_ITEM), Elem(E_ITEM), Elem(E_UNORDERED_LIST), Elem(E_ITEM)>>
        /\ C9_NestedLists(nodes) = {nodes[nodes[1].children[1]].children[3]}
        /\ \A n \in Subtree(nodes, 1) :
              nodes[n].value = Elem(E_ITEM) =>
                  \A m \in Subtree(nodes, n) : nodes[m].value \notin list_nodes

C9_Witness ==
    /\ fed \in C9Scripts
    /\ raised = ""
    /\ C9_NestedLists(nodes) # {}

\* the token stream starts with a bar and holds at most one more bar, with
\* text between the two
FrontmatterStream(toks) ==
    /\ toks # <<>>
    /\ toks[1] = T_HBAR
    /\ \A k \in 2..Len(toks) : toks[k] \in {<<"a">>, T_HBAR}
    /\ Cardinality({k \in 1..Len(toks) : toks[k] = T_HBAR}) <= 2
    /\ \A k \in 2..(Len(toks) - 1) : toks[k] # T_HBAR

\* C10: the first bar opens a Frontmatter child of Root, every token between
\* the bars is captured inside it, the second bar closes it, neither bar
\* creates a HorizontalBar node, and Frontmatter is Root's first child.
C10_FrontmatterBars ==
    FrontmatterStream(fed) =>
        /\ raised = ""
        /\ nodes[1].children # <<>>
        /\ nodes[nodes[1].children[1]].value = Elem(E_FRONTMATTER)
        /\ \A n \in Subtree(nodes, 1) : nodes[n].value # Elem(E_HBAR)
        /\ LET fm == nodes[1].children[1]
               bars == {k \in 1..Len(fed) : fed[k] = T_HBAR}
               inside == Cardinality({k \in 2..Len(fed) : fed[k] = <<"a">>})
           IN  /\ nodes[fm].closed = (Cardinality(bars) = 2)
               /\ KindsOf(nodes, nodes[fm].children)
                     = [k \in 1..inside |-> Str(<<"a">>)]
               /\ Len(nodes[1].children) = 1


\* the node that receives the next token: the end of the chain of open last
\* children from n
RECURSIVE OpenLeaf(_, _)
OpenLeaf(ns, n) ==
    IF last_child_open(ns, n) THEN OpenLeaf(ns, last_child(ns, n)) ELSE n

AllDigits(str) == \A k \in 1..Len(str) : str[k] \in digits

\* the part of str before its first x (all of it without an x), and the
\* part after
BeforeX(str) ==
    IF \E k \in 1..Len(str) : str[k] = "x"
    THEN SubSeq(str, 1, (CHOOSE k \in 1..Len(str) :
                            str[k] = "x" /\ \A j \in 1..(k - 1) : str[j] # "x") - 1)
    ELSE str

AfterX(str) == SubSeq(str, Len(BeforeX(str)) + 2, Len(str))

\* the target of the link node n: what the separator stored, or else the
\* text of its children
ResolvedTarget(ns, n) ==
    IF ns[n].link_to # <<>> THEN ns[n].link_to ELSE children_str(ns, n)

\* Root's single child is a closed Image without children
RootImage(ns, target, width, height) ==
    /\ Len(ns[1].children) = 1
    /\ LET n == ns[ns[1].children[1]]
       IN  /\ n.value = Elem(E_IMAGE)
           /\ n.closed
           /\ n.children = <<>>
           /\ n.link_to = target
           /\ n.image_width = width
           /\ n.image_height = height

C11_CloseStep ==
    LET n == OpenLeaf(nodes, 1)
        dims == children_value_str(nodes, n)
        kept == AllDigits(BeforeX(dims)) /\ AllDigits(AfterX(dims))
    IN  (/\ pc = "build"
         /\ fed' = Append(fed, T_CLOSE)
         /\ nodes[n].value = Elem(E_EMBED_LINK)
         /\ Len(ResolvedTarget(nodes, n)) >= 4
         /\ Suffix(ResolvedTarget(nodes, n), 4) \in
                {<<".", "j", "p", "g">>, <<".", "p", "n", "g">>})
        => /\ raised' = ""
           /\ nodes'[n].value = Elem(E_IMAGE)
           /\ nodes'[n].closed
           /\ nodes'[n].children = <<>>
           /\ nodes'[n].link_to = ResolvedTarget(nodes, n)
           /\ nodes[n].children # <<>> =>
                 /\ nodes'[n].image_width = IF kept THEN BeforeX(dims) ELSE <<>>
                 /\ nodes'[n].image_height = IF kept THEN AfterX(dims) ELSE <<>>

C11_Examples ==
    /\ fed \in {Prefix(script, 5) : script \in LinkCorpus} \cup LinkCorpus => raised = ""
    /\ Prefix(fed, 5) = <<T_EMBED_LINK, PIC_JPG, T_PIPE, DIM_200x100, T_CLOSE>>
          => RootImage(nodes, PIC_JPG, <<"2", "0", "0">>, <<"1", "0", "0">>)
    /\ Prefix(fed, 5) = <<T_EMBED_LINK, PIC_JPG, T_PIPE, DIM_200xabc, T_CLOSE>>
          => RootImage(nodes, PIC_JPG, <<>>, <<>>)

\* C11: when the close token reaches an open embed-link node whose resolved
\* target ends in .jpg or .png, the node becomes a closed Image without
\* children; if it had children their text is split at the first x into
\* width and height, kept when both are all digits and both empty otherwise.
\* The tokens of ![[pic.jpg|200x100]] give target pic.jpg, width 200 and
\* height 100; those of ![[pic.jpg|200xabc]] give both dimensions empty.
C11_EmbedBecomesImage == []C11_Examples /\ [][C11_CloseStep]_vars

C11_Witness ==
    /\ fed = <<T_EMBED_LINK, PIC_JPG, T_PIPE, DIM_200x100, T_CLOSE>>
    /\ RootImage(nodes, PIC_JPG, <<"2", "0", "0">>, <<"1", "0", "0">>)


\* the open Paragraph that holds node n (n itself included), 0 without one
RECURSIVE EnclosingParagraph(_, _)
EnclosingParagraph(ns, n) ==
    IF n = 0 THEN 0
    ELSE IF ns[n].value = Elem(E_PARAGRAPH) /\ ~ns[n].closed THEN n
    ELSE EnclosingParagraph(ns, ns[n].parent)

ParagraphCount(ns) ==
    Cardinality({n \in Subtree(ns, 1) : ns[n].value = Elem(E_PARAGRAPH)})

C12_NoStackedLineBreaks ==
    \A n \in 1..Len(nodes) :
        \A k \in 1..(Len(nodes[n].children) - 1) :
            ~(/\ nodes[nodes[n].children[k]].value = Elem(E_LINE_BREAK)
              /\ nodes[nodes[n].children[k + 1]].value = Elem(E_LINE_BREAK))

C12_LineBreakStep ==
    LET p == EnclosingParagraph(nodes, OpenLeaf(nodes, 1))
    IN  (pc = "build" /\ fed' = Append(fed, T_LINE_BREAK) /\ p # 0)
        => /\ raised' = ""
           /\ \A n \in 1..Len(nodes) :
                 nodes'[n].closed # nodes[n].closed => n = p
           /\ ParagraphCount(nodes') = ParagraphCount(nodes)

C12_TwoBreaksCloseParagraph ==
    fed = <<<<"a">>, T_LINE_BREAK, T_LINE_BREAK>> =>
        /\ raised = ""
        /\ Len(nodes[1].children) = 1
        /\ nodes[nodes[1].children[1]].value = Elem(E_PARAGRAPH)
        /\ nodes[nodes[1].children[1]].closed

\* C12: after any sequence of tokens no node has two adjacent LineBreak
\* children, and a run of line-break tokens following a paragraph closes
\* exactly that one paragraph once: each line-break token that reaches an
\* open paragraph raises nothing, closes no other node and creates no
\* Paragraph, and after two of them the paragraph is closed.
C12_LineBreakRun ==
    /\ [](C12_NoStackedLineBreaks /\ C12_TwoBreaksCloseParagraph)
    /\ [][C12_LineBreakStep]_vars


\* C13: look-ahead and look-behind never raise: for every cursor position
\* and every count or offset, positive or negative, peek and peek_char
\* return a string, and a position before the start or past the end of the
\* text yields the empty string.
C13_PeekNeverRaises ==
    [][(StringPeek_peek \/ StringPeek_peek_char) =>
           /\ raised' = ""
           /\ peeked' \in SeqsUpTo({"a", "b"}, MaxPeekOffset)]_vars


C14_ClosedFromCreation ==
    \A n \in 1..Len(nodes) :
        (\/ ~nodes[n].value.el
         \/ nodes[n].value \in {Elem(E_TAG), Elem(E_LINE_BREAK), Elem(E_HBAR)})
        => nodes[n].closed

C14_StaysClosed ==
    \A n \in 1..Len(nodes) :
        nodes[n].closed => (n <= Len(nodes') /\ nodes'[n].closed)

\* C14: the closed flag of every node is monotonic, once closed a node is
\* never open again through any sequence of tokens; text leaves and Tag,
\* LineBreak and HorizontalBar nodes are closed from creation.
C14_ClosedMonotonic == []C14_ClosedFromCreation /\ [][C14_StaysClosed]_vars

C14_Witness ==
    /\ \E n \in 1..Len(nodes) : nodes[n].value = Elem(E_TAG)
    /\ \E n \in 1..Len(nodes) : nodes[n].value = Elem(E_HBAR)
    /\ \E n \in 1..Len(nodes) : ~nodes[n].value.el
    /\ nodes[1].closed
    /\ Len(fed) > 3


\* C15: after every token processed by the tree builder no direct child of
\* Root is a literal text leaf, an Emphasis node or a Strong node; such
\* content is wrapped in a Paragraph child of Root.
C15_RootHoldsNoLooseText ==
    \A k \in 1..Len(nodes[1].children) :
        /\ nodes[nodes[1].children[k]].value.el
        /\ nodes[nodes[1].children[k]].value \notin {Elem(E_EM), Elem(E_STRONG)}

C15_Witness ==
    /\ nodes[1].closed
    /\ \E k \in 1..Len(nodes[1].children) :
          LET p == nodes[1].children[k]
          IN  /\ nodes[p].value = Elem(E_PARAGRAPH)
              /\ \E c \in 1..Len(nodes[p].children) :
                    nodes[nodes[p].children[c]].value = Elem(E_STRONG)
              /\ \E c \in 1..Len(nodes[p].children) :
                    ~nodes[nodes[p].children[c]].value.el


\* C16: after any sequence of tokens every ListItem node is a direct child
\* of an UnorderedList or OrderedList node, and along any chain of nested
\* list nodes list_indent strictly increases with tree depth.
C16_ListStructure ==
    \A n \in Subtree(nodes, 1) :
        /\ nodes[n].value = Elem(E_ITEM) =>
              /\ nodes[n].parent # 0
              /\ nodes[nodes[n].parent].value \in
                    {Elem(E_UNORDERED_LIST), Elem(E_ORDERED_LIST)}
        /\ \A k \in 1..Len(nodes[n].children) :
              (/\ nodes[n].value \in {Elem(E_UNORDERED_LIST), Elem(E_ORDERED_LIST)}
               /\ nodes[nodes[n].children[k]].value \in
                     {Elem(E_UNORDERED_LIST), Elem(E_ORDERED_LIST)})
              => nodes[nodes[n].children[k]].list_indent > nodes[n].list_indent
        /\ \A k \in 1..Len(nodes[n].children) :
              nodes[nodes[n].children[k]].parent = n

C16_Witness ==
    \E n \in Subtree(nodes, 1) :
        /\ nodes[n].value = Elem(E_UNORDERED_LIST)
        /\ nodes[n].parent # 0
        /\ nodes[nodes[n].parent].value = Elem(E_UNORDERED_LIST)
        /\ \E k \in 1..Len(nodes[n].children) :
              nodes[nodes[n].children[k]].value = Elem(E_ITEM)
        /\ \E k \in 1..Len(nodes[nodes[n].parent].children) :
              nodes[nodes[nodes[n].parent].children[k]].value = Elem(E_ITEM)


\* C17: the predicate "first significant character of the current line" is
\* true for the character just read exactly when every character between it
\* and the preceding newline (or the start of the input) is a space or a
\* tab; a non-blank character earlier on the same line, the very first
\* character of the input included, makes it false.
C17_FirstSignificantExact ==
    (pc = "tokenise" /\ cursor >= 1) =>
        (is_first_line_character(text, cursor) <=> FirstSignificant(text, cursor))


\* C18: ordered-list probe.  When the character read is a digit at the first
\* significant position of its line: if the run of digits it starts is
\* immediately followed by dot and space, one list-item marker carrying the
\* whole number is emitted and the cursor ends just past the space;
\* otherwise the probe leaves the cursor just past the digit and the digit
\* itself is appended to the text buffer, nothing being lost or duplicated.
NumberEnd(s, k) ==
    CHOOSE j \in k..(Len(s) + 1) :
        /\ \A m \in k..(j - 1) : s[m] \in digits
        /\ j = Len(s) + 1 \/ s[j] \notin digits

C18_ProbeStep ==
    (/\ pc = "tokenise"
     /\ cursor < Len(text)
     /\ text[cursor + 1] \in digits
     /\ FirstSignificant(text, cursor + 1))
    => LET e == NumberEnd(text, cursor + 1)
           marker == SubSeq(text, cursor + 1, e + 1)
       IN  IF e + 1 <= Len(text) /\ text[e] = "." /\ text[e + 1] = " "
           THEN /\ pc' = "tokenise"
                /\ Len(tokens') > Len(tokens)
                /\ tokens'[Len(tokens')] = marker
                /\ cursor' = e + 1
           ELSE /\ pc' = "tokenise"
                /\ cursor' = cursor + 1
                /\ tokens' = tokens
                /\ current_token' = Append(current_token, text[cursor + 1])

C18_NumberedListProbe == [][C18_ProbeStep]_vars


\* C19: a run of exactly three spaces at the start of a line is emitted as
\* one tab token (the buffered text being flushed first and the three spaces
\* consumed), and a space that belongs to no start-of-line run, or to a
\* start-of-line run shorter than three, is appended to the text buffer as a
\* literal space.
SpaceRunFirst(s, k) ==
    CHOOSE i \in 1..k :
        /\ \A m \in i..k : s[m] = " "
        /\ i = 1 \/ s[i - 1] # " "

SpaceRunLast(s, k) ==
    CHOOSE j \in k..Len(s) :
        /\ \A m \in k..j : s[m] = " "
        /\ j = Len(s) \/ s[j + 1] # " "

C19_SpaceStep ==
    (pc = "tokenise" /\ cursor < Len(text) /\ text[cursor + 1] = " ")
    => LET first == SpaceRunFirst(text, cursor + 1)
           last == SpaceRunLast(text, cursor + 1)
           at_line_start == first = 1 \/ text[first - 1] = "\n"
       IN  IF at_line_start /\ last - first + 1 = 3
           THEN first = cursor + 1 =>
                    /\ tokens' = Append(IF current_token = <<>> THEN tokens
                                        ELSE Append(tokens, current_token),
                                        <<"\t">>)
                    /\ current_token' = <<>>
                    /\ cursor' = cursor + 3
           ELSE (~at_line_start \/ last - first + 1 < 3) =>
                    /\ tokens' = tokens
                    /\ current_token' = Append(current_token, " ")
                    /\ cursor' = cursor + 1

C19_ThreeSpacesAreATab == [][C19_SpaceStep]_vars


\* C20: when the character read is a backtick, the buffered text is flushed;
\* if two more backticks follow, a single code-block token is emitted and
\* all three backticks are consumed, otherwise a code-span token is emitted
\* and only the backtick read is consumed.
C20_BacktickStep ==
    (pc = "tokenise" /\ cursor < Len(text) /\ text[cursor + 1] = BT)
    => LET flushed == IF current_token = <<>> THEN tokens
                      ELSE Append(tokens, current_token)
       IN  /\ current_token' = <<>>
           /\ IF /\ cursor + 3 <= Len(text)
                 /\ text[cursor + 2] = BT
                 /\ text[cursor + 3] = BT
              THEN /\ tokens' = Append(flushed, <<BT, BT, BT>>)
                   /\ cursor' = cursor + 3
              ELSE /\ tokens' = Append(flushed, <<BT>>)
                   /\ cursor' = cursor + 1

C20_TripleBacktickIsCodeBlock == [][C20_BacktickStep]_vars

\* C21 (as stated): when a close-paren token arrives while an open external
\* link bracket is on top of the stack and no link-target-break is pending,
\* the bracket is removed from the stack and nothing is rewritten.
ParenOnOpenBracket ==
    /\ pc = "resolve"
    /\ tok_index' = tok_index + 1
    /\ tokens'[tok_index] = <<")">>
    /\ stack_peek(delimiter_stack) = <<"[">>
    /\ ~external_link_correct

LinkBreakOnOpenBracket ==
    /\ pc = "resolve"
    /\ tok_index' = tok_index + 1
    /\ tokens'[tok_index] = <<"]", "(">>
    /\ stack_peek(delimiter_stack) = <<"[">>

ClosesExternalLink ==
    /\ pc = "resolve"
    /\ tok_index' = tok_index + 1
    /\ delimiter_stack # <<>>
    /\ Last(delimiter_stack)[2] = <<"[">>
    /\ delimiter_stack' = Front(delimiter_stack)
    /\ tok_index \in DOMAIN processed_tokens'
    /\ processed_tokens'[tok_index] = T_CLOSE

C22_LinkBreakInsidePair ==
    [][ClosesExternalLink =>
          \E k \in (Last(delimiter_stack)[1] + 1)..(tok_index - 1) :
              /\ k \in DOMAIN processed_tokens
              /\ processed_tokens[k] = T_LINK_BREAK]_vars

\* C23: code suppression.  While the top of the opener stack is a code-span
\* or code-block opener, a token changes the resolver's state only if it is
\* the matching backtick closer, which pops the opener and rewrites the
\* pair; every other token (openers, tab, horizontal bar, pipe, newline)
\* pushes nothing, leaves the rewrite table as it is and raises nothing (a
\* newline drops the entries below the code opener, any other token leaves
\* the stack as it is).
\* Hence a code opener is only ever the top entry of the stack.
CodeOpeners == {<<BT>>, <<BT, BT, BT>>}

InCodeStep ==
    /\ pc = "resolve"
    /\ tok_index' = tok_index + 1
    /\ stack_peek(delimiter_stack) \in CodeOpeners

C23_CodeStep ==
    InCodeStep =>
        /\ raised' = ""
        /\ external_link_correct' = external_link_correct
        /\ IF tokens'[tok_index] = stack_peek(delimiter_stack)
           THEN /\ delimiter_stack' = Front(delimiter_stack)
                /\ DOMAIN processed_tokens' =
                       DOMAIN processed_tokens
                           \cup {Last(delimiter_stack)[1], tok_index}
                /\ processed_tokens'[tok_index] = T_CLOSE
                /\ processed_tokens'[Last(delimiter_stack)[1]]
                       \in {T_CODE, T_CODEBLOCK}
                /\ \A k \in DOMAIN processed_tokens :
                       processed_tokens'[k] = processed_tokens[k]
           ELSE /\ processed_tokens' = processed_tokens
                /\ delimiter_stack' =
                       IF tokens'[tok_index] \in {NEWLINE, TWO_NEWLINES}
                       THEN <<Last(delimiter_stack)>> ELSE delimiter_stack

C23_CodeOpenerOnlyOnTop ==
    \A k \in 1..(Len(delimiter_stack) - 1) :
        delimiter_stack[k][2] \notin CodeOpeners

C23_CodeSuppression == []C23_CodeOpenerOnlyOnTop /\ [][C23_CodeStep]_vars

C23_Witness ==
    /\ tokens = <<<<BT>>, <<"*">>, <<"\t">>, NEWLINE, <<"*">>, <<BT>>>>
    /\ tok_index = 7
    /\ delimiter_stack = <<>>
    /\ processed_tokens = (1 :> T_CODE) @@ (6 :> T_CLOSE)

\* C24: a newline token that does not close a block-prefix opener removes
\* every stack entry that is not a code-span or code-block opener, leaving
\* the positions of the removed openers unrewritten, and is itself rewritten
\* to a break token exactly when the stack is empty afterwards.  Hence no
\* non-code opener still on the stack has such a newline after it, and none
\* is ever matched with a closer that lies after such a newline.
BlockPrefixOnTop(stack) ==
    /\ stack # <<>>
    /\ \/ Last(stack)[2] \in closed_by_newline
       \/ Suffix(Last(stack)[2], 2) = DOT_SPACE

CodeEntries(stack) == SelectSeq(stack, LAMBDA d : d[2] \in CodeOpeners)

C24_NewlineStep ==
    (/\ pc = "resolve"
     /\ tok_index' = tok_index + 1
     /\ tokens'[tok_index] \in {NEWLINE, TWO_NEWLINES}
     /\ ~BlockPrefixOnTop(delimiter_stack))
    => /\ raised' = ""
       /\ delimiter_stack' = CodeEntries(delimiter_stack)
       /\ processed_tokens' =
              IF CodeEntries(delimiter_stack) = <<>>
              THEN processed_tokens @@ (tok_index :> T_LINE_BREAK)
              ELSE processed_tokens

C24_NoOpenerSurvivesNewline ==
    \A e \in 1..Len(delimiter_stack) :
        delimiter_stack[e][2] \notin CodeOpeners =>
            \A k \in (delimiter_stack[e][1] + 1)..Len(tokens) :
                tokens[k] \in {NEWLINE, TWO_NEWLINES} =>
                    /\ k \in DOMAIN processed_tokens
                    /\ processed_tokens[k] = T_CLOSE

C24_NewlineClearsOpeners ==
    []C24_NoOpenerSurvivesNewline /\ [][C24_NewlineStep]_vars

C24_Witness ==
    /\ tokens = <<<<"*">>, NEWLINE, <<"*">>>>
    /\ tok_index = 4
    /\ delimiter_stack = <<<<3, <<"*">>>>>>
    /\ processed_tokens = (2 :> T_LINE_BREAK)

\* C25: after a list-item token is processed while the root's tab counter
\* is k (k >= 0), the newly created open ListItem is the last child of a
\* List-kind node whose list_indent equals k, and the tab counter is 0.
IsListItemToken(token) ==
    token = T_ITEM \/ IsPrefix(OLI_PREFIX, token)

ListItemStep ==
    /\ pc = "build"
    /\ Len(fed') = Len(fed) + 1
    /\ IsListItemToken(fed'[Len(fed')])

C25_ItemStep ==
    ListItemStep =>
        LET k == nodes[1].tab_count
            item == Len(nodes')
            list == nodes'[item].parent
        IN  /\ raised' = ""
            /\ Len(nodes') > Len(nodes)
            /\ nodes'[item].value = Elem(E_ITEM)
            /\ ~nodes'[item].closed
            /\ list # 0
            /\ nodes'[list].value \in list_nodes
            /\ Last(nodes'[list].children) = item
            /\ nodes'[list].list_indent = k
            /\ nodes'[1].tab_count = 0

C25_ItemAtIndent == [][C25_ItemStep]_vars

\* C26: for every value of the tab counter, also one that needs more steps
\* than the attempt bound of the search, processing a list-item token
\* returns without raising, creates at most one list node per attempt, and
\* appends exactly one ListItem, to a List-kind node.
ItemNodes(ns) == {n \in 1..Len(ns) : ns[n].value = Elem(E_ITEM)}

C26_ItemStep ==
    ListItemStep =>
        /\ raised' = ""
        /\ pc' = "build"
        /\ Len(nodes') - Len(nodes) <= MaxTries + 1
        /\ Cardinality(ItemNodes(nodes')) = Cardinality(ItemNodes(nodes)) + 1
        /\ \A n \in ItemNodes(nodes') \ ItemNodes(nodes) :
               /\ nodes'[n].parent # 0
               /\ nodes'[nodes'[n].parent].value \in list_nodes
               /\ \E c \in DOMAIN nodes'[nodes'[n].parent].children :
                      nodes'[nodes'[n].parent].children[c] = n

C26_ItemAlwaysAppended == [][C26_ItemStep]_vars

\* C27: at every nesting depth, the ListItem created for a numbered
\* list-item token is a child of an OrderedList node and the ListItem
\* created for a bulleted list-item token is a child of an UnorderedList
\* node; an existing list of the other kind is never reused.
C27_ItemStep ==
    (ListItemStep /\ raised' = "") =>
        \A n \in ItemNodes(nodes') \ ItemNodes(nodes) :
            /\ nodes'[n].parent # 0
            /\ nodes'[nodes'[n].parent].value =
                   IF fed'[Len(fed')] = T_ITEM
                   THEN Elem(E_UNORDERED_LIST) ELSE Elem(E_ORDERED_LIST)

C27_ItemInListOfItsKind == [][C27_ItemStep]_vars

\* C28: every Heading, BlockQuote and HorizontalBar node of the tree has
\* Root as its parent; and when a heading, block-quote or horizontal-bar
\* token is processed (a bar that fences the frontmatter aside), Root's
\* trailing LineBreak children are removed and every node that existed is
\* closed before the new node is appended as Root's last child.
TopLevelValues ==
    {Elem(E_H1), Elem(E_H2), Elem(E_H3), Elem(E_H4), Elem(E_H5), Elem(E_H6),
     Elem(E_BLOCK_QUOTE), Elem(E_HBAR)}

C28_TopLevelUnderRoot ==
    \A n \in Subtree(nodes, 1) :
        nodes[n].value \in TopLevelValues => nodes[n].parent = 1

FencesFrontmatter(ns, token) ==
    /\ token = T_HBAR
    /\ \/ ns[1].children = <<>>
       \/ /\ Len(ns[1].children) = 1
          /\ ns[ns[1].children[1]].value = Elem(E_FRONTMATTER)

RECURSIVE TrimLineBreaks(_, _)
TrimLineBreaks(ns, kids) ==
    IF kids # <<>> /\ ns[Last(kids)].value = Elem(E_LINE_BREAK)
    THEN TrimLineBreaks(ns, Front(kids)) ELSE kids

C28_TopLevelStep ==
    (/\ pc = "build"
     /\ Len(fed') = Len(fed) + 1
     /\ fed'[Len(fed')] \in top_level_elements
     /\ ~FencesFrontmatter(nodes, fed'[Len(fed')]))
    => /\ raised' = ""
       /\ Len(nodes') = Len(nodes) + 1
       /\ nodes'[Len(nodes')].value \in TopLevelValues
       /\ nodes'[Len(nodes')].parent = 1
       /\ nodes'[1].children =
              Append(TrimLineBreaks(nodes, nodes[1].children), Len(nodes'))
       /\ \A n \in 2..Len(nodes) :
              n \in Subtree(nodes', 1) => nodes'[n].closed

C28_TopLevelElements ==
    []C28_TopLevelUnderRoot /\ [][C28_TopLevelStep]_vars

\* C29: when a line-break token reaches the deepest open node and that
\* node's last child is not a LineBreak, a new LineBreak child is appended
\* to it and no node is closed (an open Paragraph stays open after a single
\* line break); when the last child already is a LineBreak, that child is
\* removed and the nearest enclosing open Paragraph is closed.
C29_LineBreakStep ==
    (pc = "build" /\ fed' = Append(fed, T_LINE_BREAK))
    => LET leaf == OpenLeaf(nodes, 1)
           last == last_child(nodes, leaf)
           p == EnclosingParagraph(nodes, leaf)
       IN  /\ raised' = ""
           /\ IF last = 0 \/ nodes[last].value # Elem(E_LINE_BREAK)
              THEN /\ Len(nodes') = Len(nodes) + 1
                   /\ nodes'[Len(nodes')].value = Elem(E_LINE_BREAK)
                   /\ nodes'[Len(nodes')].parent = leaf
                   /\ nodes'[leaf].children =
                          Append(nodes[leaf].children, Len(nodes'))
                   /\ \A n \in 1..Len(nodes) :
                          nodes'[n].closed = nodes[n].closed
              ELSE /\ nodes'[leaf].children = Front(nodes[leaf].children)
                   /\ \A n \in 1..Len(nodes) :
                          nodes'[n].closed # nodes[n].closed => n = p
                   /\ p # 0 => nodes'[p].closed

C29_SingleLineBreakAppends == [][C29_LineBreakStep]_vars

\* C30: in the resolver's rewriting, semantic open tokens and close tokens
\* are balanced and properly nested.  A position once rewritten is never
\* rewritten again; a loop iteration rewrites either no open and no close
\* token, or exactly one close token at the current position together with
\* exactly one open token at an earlier position, and the rewritten tokens
\* strictly between the two are themselves balanced; so every close token
\* has exactly one earlier open token, every open token exactly one later
\* close token, and two pairs are disjoint or nested, never crossing.
IsOpenToken(token) ==
    \/ \E d \in DOMAIN openers : openers[d] = token
    \/ IsPrefix(OLI_PREFIX, token)

\* the nesting depth after positions from..to of the rewritten list, -1
\* once a close token has no open token before it
RECURSIVE NestingDepth(_, _, _, _)
NestingDepth(pt, from, to, depth) ==
    IF depth < 0 \/ from > to THEN depth
    ELSE IF from \notin DOMAIN pt THEN NestingDepth(pt, from + 1, to, depth)
    ELSE IF pt[from] = T_CLOSE THEN NestingDepth(pt, from + 1, to, depth - 1)
    ELSE IF IsOpenToken(pt[from]) THEN NestingDepth(pt, from + 1, to, depth + 1)
    ELSE NestingDepth(pt, from + 1, to, depth)

C30_Balanced == NestingDepth(processed_tokens, 1, Len(tokens), 0) = 0

C30_PairStep ==
    (pc = "resolve" /\ tok_index' = tok_index + 1) =>
        LET new == DOMAIN processed_tokens' \ DOMAIN processed_tokens
            closes == {k \in new : processed_tokens'[k] = T_CLOSE}
            opens == {k \in new : IsOpenToken(processed_tokens'[k])}
        IN  /\ \A k \in DOMAIN processed_tokens :
                   /\ k \in DOMAIN processed_tokens'
                   /\ processed_tokens'[k] = processed_tokens[k]
            /\ \/ closes = {} /\ opens = {}
               \/ /\ closes = {tok_index}
                  /\ \E o \in 1..(tok_index - 1) :
                        /\ opens = {o}
                        /\ NestingDepth(processed_tokens, o + 1,
                                        tok_index - 1, 0) = 0

C30_BalancedAndNested == []C30_Balanced /\ [][C30_PairStep]_vars

C30_Witness ==
    /\ tokens = <<<<"#">>, <<"*">>, <<"a">>, <<"*">>, NEWLINE>>
    /\ tok_index = 6
    /\ processed_tokens =
           (1 :> T_H1) @@ (2 :> T_EM) @@ (4 :> T_CLOSE) @@ (5 :> T_CLOSE)
    /\ delimiter_stack = <<>>

\* C31: after every token processed by the tree builder the open nodes form
\* a single chain from Root: every open node other than Root is the last
\* child of its parent and that parent is open; so no child is ever
\* appended to a closed node and no node has an open child that is not its
\* last child.
C31_OpenChain ==
    \A n \in Subtree(nodes, 1) :
        (n # 1 /\ ~nodes[n].closed) =>
            /\ ~nodes[nodes[n].parent].closed
            /\ last_child(nodes, nodes[n].parent) = n

C31_AppendStep ==
    pc = "build" =>
        \A m \in (Len(nodes) + 1)..Len(nodes') :
            nodes'[m].parent \in 1..Len(nodes) =>
                ~nodes'[nodes'[m].parent].closed

C31_OpenNodesFormAChain == []C31_OpenChain /\ [][C31_AppendStep]_vars

\* C32: literal text is never interpreted as markup downstream.  In a text
\* whose characters outside escapes are plain letters and newlines, every
\* other character being escaped with a backslash, nothing is ever pushed
\* on the opener stack and no position is rewritten as an opener or a
\* closer: only a newline is rewritten, to a break token.
RECURSIVE OnlyEscapedMarkup(_)
OnlyEscapedMarkup(s) ==
    IF s = <<>> THEN TRUE
    ELSE IF Head(s) = "\\"
    THEN Len(s) >= 2 /\ s[2] # "\n" /\ OnlyEscapedMarkup(SubSeq(s, 3, Len(s)))
    ELSE /\ Head(s) = "\n" \/ Head(s) \notin markdown_handlers \cup digits
         /\ OnlyEscapedMarkup(Tail(s))

C32_EscapedTextStaysLiteral ==
    OnlyEscapedMarkup(text) =>
        /\ delimiter_stack = <<>>
        /\ \A k \in DOMAIN processed_tokens :
               processed_tokens[k] = T_LINE_BREAK

\* C33: the nesting depth used for a list item, the root's tab counter when
\* its marker is processed, equals the number of tab tokens that directly
\* precede the marker; tab tokens met earlier, before other content, do not
\* change the depth of a later list item.
RECURSIVE TrailingTabs(_)
TrailingTabs(toks) ==
    IF toks # <<>> /\ Last(toks) = T_TAB
    THEN 1 + TrailingTabs(Front(toks)) ELSE 0

C33_DepthIsTabsOfLine ==
    [][ListItemStep => nodes[1].tab_count = TrailingTabs(fed)]_vars

\* C34: tokenisation loses no text.  In a step of the tokeniser that emits
\* no token, every character the step consumes, an escaping backslash
\* aside, is appended in input order to the literal-text buffer; so an
\* exclamation mark not followed by two opening brackets, and a hyphen at
\* the first significant position of a line followed by neither two hyphens
\* nor a space, are kept as literal text.
C34_SilentStep ==
    (/\ pc = "tokenise"
     /\ pc' = "tokenise"
     /\ cursor' > cursor
     /\ tokens' = tokens)
    => LET consumed == SubSeq(text, cursor + 1, cursor')
       IN  current_token' =
               current_token \o (IF Head(consumed) = "\\"
                                 THEN Tail(consumed) ELSE consumed)

C34_NoTextLost == [][C34_SilentStep]_vars

\* C35: a heading, block-quote or list-item opener pushed at the start of a
\* line is rewritten to its semantic open token, and the newline ending
\* that line to a close token, even when an inline opener pushed later on
\* the line was never closed: when a newline arrives while the bottom of
\* the stack is a block-prefix opener and no code opener is open, the
\* opener's position is rewritten to its open token and the newline's
\* position to the close token.
IsBlockPrefix(token) ==
    token \in closed_by_newline \/ Suffix(token, 2) = DOT_SPACE

C35_NewlineStep ==
    (/\ pc = "resolve"
     /\ tok_index' = tok_index + 1
     /\ tokens'[tok_index] = NEWLINE
     /\ delimiter_stack # <<>>
     /\ IsBlockPrefix(delimiter_stack[1][2])
     /\ \A e \in 1..Len(delimiter_stack) :
            delimiter_stack[e][2] \notin CodeOpeners)
    => LET opener == delimiter_stack[1]
       IN  /\ opener[1] \in DOMAIN processed_tokens'
           /\ processed_tokens'[opener[1]] = get_opener(opener[2])
           /\ tok_index \in DOMAIN processed_tokens'
           /\ processed_tokens'[tok_index] = T_CLOSE

C35_BlockSurvivesUnclosedInline == [][C35_NewlineStep]_vars

====
